---- MODULE Spec2Model ----
(***************************************************************************)
(* A model of the SuperchargedNotes backend (src/backend): the AI-response *)
(* normalisation and extraction of create_flashcards / create_quiz, the    *)
(* upload handlers, the cascading delete_note, and the chat stream relay.  *)
(*                                                                         *)
(* Text is a sequence of one-character strings, so that the regular        *)
(* expressions, str.replace and json.loads of the source act on the same   *)
(* characters as in the program.                                           *)
(***************************************************************************)
EXTENDS Integers, Sequences, FiniteSets, TLC

(***************************************************************************)
(* Bounds of the model.                                                    *)
(***************************************************************************)
\* the longest JSON string body, in escape atoms, of a generated AI response
MaxAtoms == 2
\* the most elements of a generated AI response array
MaxItems == 2
\* the most characters of a generated response that is plain text
MaxRaw == 5

(***************************************************************************)
(* Characters and text helpers.                                            *)
(***************************************************************************)
BSLASH == "\\"
DQUOTE == "\""
NEWLINE == "\n"
\* the backtick, which a TLA+ string cannot hold, is the token "BT"
BTICK == "BT"

\* Python's \s on the characters the model uses, and JSON's whitespace
IsSpace(c) == c \in {" ", "\n", "\t", "\r"}

\* s[i..j] (1-based, inclusive), empty when j < i
Slice(s, i, j) == IF j < i THEN <<>> ELSE SubSeq(s, i, j)

\* pat occurs in s at position i
StartsAt(s, i, pat) ==
    /\ i >= 1
    /\ i + Len(pat) - 1 <= Len(s)
    /\ \A k \in 1..Len(pat) : s[i + k - 1] = pat[k]

\* the first position >= from where pat occurs in s, 0 when there is none
IndexFrom(s, pat, from) ==
    LET hits == {i \in from..(Len(s) - Len(pat) + 1) : StartsAt(s, i, pat)}
    IN IF hits = {} THEN 0 ELSE CHOOSE i \in hits : \A j \in hits : i <= j

\* Python's `pat in s`
Contains(s, pat) == IndexFrom(s, pat, 1) # 0

\* str.strip(): leading and trailing whitespace removed
Strip(s) ==
    LET keep == {i \in 1..Len(s) : ~IsSpace(s[i])}
    IN IF keep = {} THEN <<>>
       ELSE LET a == CHOOSE i \in keep : \A j \in keep : i <= j
                b == CHOOSE i \in keep : \A j \in keep : i >= j
            IN SubSeq(s, a, b)

\* str.replace(pat, rep): every non-overlapping occurrence, left to right
RECURSIVE ReplaceFrom(_, _, _, _)
ReplaceFrom(s, pat, rep, from) ==
    LET i == IndexFrom(s, pat, from)
    IN IF i = 0 THEN Slice(s, from, Len(s))
       ELSE Slice(s, from, i - 1) \o rep \o ReplaceFrom(s, pat, rep, i + Len(pat))

ReplaceAll(s, pat, rep) == ReplaceFrom(s, pat, rep, 1)

(***************************************************************************)
(* Response normalisation: flashcards.py 258-279, quizzes.py 265-286.      *)
(***************************************************************************)
FENCE == <<BTICK, BTICK, BTICK>>
JSONTAG == <<"j", "s", "o", "n">>

\* the end of the whitespace run that starts at p: the first position >= p
\* holding no whitespace (Len(s)+1 when the run reaches the end)
RECURSIVE WsEnd(_, _)
WsEnd(s, p) ==
    IF p > Len(s) \/ ~IsSpace(s[p]) THEN p ELSE WsEnd(s, p + 1)

\* r"\s*\n([\s\S]*?)```" tried at p: the greedy \s* gives back characters
\* until a newline follows it, so the newline matched is the last one of the
\* whitespace run; the lazy group then ends at the first fence after it.
FenceTail(s, p) ==
    LET e == WsEnd(s, p)
        nls == {k \in p..(e - 1) : s[k] = NEWLINE}
    IN IF nls = {} THEN [found |-> FALSE, g1 |-> <<>>]
       ELSE LET k == CHOOSE x \in nls : \A y \in nls : x >= y
                c == IndexFrom(s, FENCE, k + 1)
            IN IF c = 0 THEN [found |-> FALSE, g1 |-> <<>>]
               ELSE [found |-> TRUE, g1 |-> Slice(s, k + 1, c - 1)]

\* r"```(?:json)?\s*\n([\s\S]*?)```" tried at start position i: the optional
\* tag is taken when present, and given back when the rest fails with it
FenceAt(s, i) ==
    IF ~StartsAt(s, i, FENCE) THEN [found |-> FALSE, g1 |-> <<>>]
    ELSE LET withTag == IF StartsAt(s, i + 3, JSONTAG)
                            THEN FenceTail(s, i + 7)
                            ELSE [found |-> FALSE, g1 |-> <<>>]
         IN IF withTag.found THEN withTag ELSE FenceTail(s, i + 3)

\* re.search of the fence pattern: the leftmost start position that matches
FenceSearch(s) ==
    LET starts == {i \in 1..Len(s) : FenceAt(s, i).found}
    IN IF starts = {} THEN [found |-> FALSE, g1 |-> <<>>]
       ELSE FenceAt(s, CHOOSE i \in starts : \A j \in starts : i <= j)

\* r"\[\s*\{[\s\S]*\}\s*\]" tried at start position i: the greedy middle
\* runs to the last "}" that is followed by optional whitespace and "]"
ArrayAt(s, i) ==
    IF ~(i <= Len(s) /\ s[i] = "[") THEN [found |-> FALSE, g0 |-> <<>>]
    ELSE LET b == WsEnd(s, i + 1)
         IN IF ~(b <= Len(s) /\ s[b] = "{") THEN [found |-> FALSE, g0 |-> <<>>]
            ELSE LET ends == {c \in (b + 1)..Len(s) :
                                 /\ s[c] = "}"
                                 /\ WsEnd(s, c + 1) <= Len(s)
                                 /\ s[WsEnd(s, c + 1)] = "]"}
                 IN IF ends = {} THEN [found |-> FALSE, g0 |-> <<>>]
                    ELSE LET c == CHOOSE x \in ends : \A y \in ends : x >= y
                         IN [found |-> TRUE, g0 |-> SubSeq(s, i, WsEnd(s, c + 1))]

\* re.search of the array pattern: the leftmost start position that matches
ArraySearch(s) ==
    LET starts == {i \in 1..Len(s) : ArrayAt(s, i).found}
    IN IF starts = {} THEN [found |-> FALSE, g0 |-> <<>>]
       ELSE ArrayAt(s, CHOOSE i \in starts : \A j \in starts : i <= j)

\* "Remove markdown code block markers if present"
StripFences(text) ==
    IF Contains(text, FENCE)
    THEN LET json_match == FenceSearch(text)
         IN IF json_match.found /\ json_match.g1 # <<>>
            THEN Strip(json_match.g1)
            ELSE LET possible_json == ArraySearch(text)
                 IN IF possible_json.found THEN possible_json.g0 ELSE text
    ELSE text

\* the placeholder "##DOUBLE_BACKSLASH##"
PLACEHOLDER ==
    <<"#", "#", "D", "O", "U", "B", "L", "E", "_", "B", "A", "C", "K",
      "S", "L", "A", "S", "H", "#", "#">>

\* the characters r'[^\\/"bfnrt]' leaves out
EscapeFollowers == {BSLASH, "/", DQUOTE, "b", "f", "n", "r", "t"}

\* re.sub(r'([^\\])\\([^\\/"bfnrt])', r'\1\\\\\2', s): matches are found left
\* to right and do not overlap; each takes the character before the
\* backslash, the backslash and the character after it
EscapeHit(s, from) ==
    LET hits == {i \in from..(Len(s) - 2) :
                    /\ s[i] # BSLASH
                    /\ s[i + 1] = BSLASH
                    /\ s[i + 2] \notin EscapeFollowers}
    IN IF hits = {} THEN 0 ELSE CHOOSE i \in hits : \A j \in hits : i <= j

RECURSIVE EscapeSubFrom(_, _)
EscapeSubFrom(s, from) ==
    LET i == EscapeHit(s, from)
    IN IF i = 0 THEN Slice(s, from, Len(s))
       ELSE Slice(s, from, i - 1) \o <<s[i], BSLASH, BSLASH, s[i + 2]>>
              \o EscapeSubFrom(s, i + 3)

EscapeSub(s) == EscapeSubFrom(s, 1)

\* the restored text of one placeholder: the literal "\\\\\\\\", which is
\* four backslash characters
RESTORED == <<BSLASH, BSLASH, BSLASH, BSLASH>>

\* "Fix LaTeX backslashes before parsing JSON"
RepairBackslashes(text) ==
    LET hidden == ReplaceAll(text, <<BSLASH, BSLASH>>, PLACEHOLDER)
        doubled == EscapeSub(hidden)
    IN ReplaceAll(doubled, PLACEHOLDER, RESTORED)

\* the text handed to json.loads
NormalizeResponse(text) == RepairBackslashes(StripFences(text))

(***************************************************************************)
(* json.loads, on the JSON the responses can hold.  A parsed value is a    *)
(* record: t its Python type, s the characters of a str (or the digits of  *)
(* an int, or the name of None/True/False), a the elements of a list, m    *)
(* the items of a dict in insertion order.                                 *)
(***************************************************************************)
JStr(chars) == [t |-> "str", s |-> chars, a |-> <<>>, m |-> <<>>]
JNum(digits) == [t |-> "int", s |-> digits, a |-> <<>>, m |-> <<>>]
JLit(name) == [t |-> "lit", s |-> name, a |-> <<>>, m |-> <<>>]
JArr(elems) == [t |-> "list", s |-> <<>>, a |-> elems, m |-> <<>>]
JObj(items) == [t |-> "dict", s |-> <<>>, a |-> <<>>, m |-> items]
JNull == JLit(<<"n", "u", "l", "l">>)

\* json.loads raised (JSONDecodeError)
ParseFail == [ok |-> FALSE, v |-> JNull, i |-> 0]

Digits == {"0", "1", "2", "3", "4", "5", "6", "7", "8", "9"}
HexDigits == Digits \cup {"a", "b", "c", "d", "e", "f", "A", "B", "C", "D", "E", "F"}

\* the character a one-letter escape stands for ("BS" is the backspace)
Unescape(e) ==
    CASE e = "b" -> "BS"
      [] e = "f" -> "\f"
      [] e = "n" -> "\n"
      [] e = "r" -> "\r"
      [] e = "t" -> "\t"
      [] OTHER -> e

\* the character of code point \uXXXX: "A" for 0041, and for the others a
\* token naming the code point
CodePoint(h) ==
    IF h = <<"0", "0", "4", "1">> THEN "A"
    ELSE "U+" \o h[1] \o h[2] \o h[3] \o h[4]

\* dict[k] = v: a repeated key keeps its place and takes the last value
PutItem(items, k, v) ==
    IF \E n \in 1..Len(items) : items[n].k = k
    THEN [n \in 1..Len(items) |->
             IF items[n].k = k THEN [k |-> k, v |-> v] ELSE items[n]]
    ELSE Append(items, [k |-> k, v |-> v])

\* the end of the digit run that starts at i
RECURSIVE DigitsEnd(_, _)
DigitsEnd(s, i) ==
    IF i > Len(s) \/ s[i] \notin Digits THEN i ELSE DigitsEnd(s, i + 1)

\* the end of the int that starts at i (a leading 0 is an int of its own)
IntEnd(s, i) == IF s[i] = "0" THEN i + 1 ELSE DigitsEnd(s, i)

RECURSIVE ParseChars(_, _, _)
RECURSIVE ParseValue(_, _)
RECURSIVE ParseElements(_, _, _)
RECURSIVE ParseItems(_, _, _)

\* the body of a string from i, after the opening quote (strict mode: a raw
\* control character ends the parse, as does an unknown escape)
ParseChars(s, i, acc) ==
    IF i > Len(s) THEN ParseFail
    ELSE IF s[i] = DQUOTE THEN [ok |-> TRUE, v |-> JStr(acc), i |-> i + 1]
    ELSE IF s[i] \in {"\n", "\t", "\r", "\f", "BS"} THEN ParseFail
    ELSE IF s[i] # BSLASH THEN ParseChars(s, i + 1, Append(acc, s[i]))
    ELSE IF i + 1 > Len(s) THEN ParseFail
    ELSE IF s[i + 1] \in {DQUOTE, BSLASH, "/", "b", "f", "n", "r", "t"}
         THEN ParseChars(s, i + 2, Append(acc, Unescape(s[i + 1])))
    ELSE IF /\ s[i + 1] = "u"
            /\ i + 5 <= Len(s)
            /\ \A k \in 2..5 : s[i + k] \in HexDigits
         THEN ParseChars(s, i + 6, Append(acc, CodePoint(SubSeq(s, i + 2, i + 5))))
    ELSE ParseFail

\* the value that starts at i (whitespace before it already skipped)
ParseValue(s, i) ==
    IF i > Len(s) THEN ParseFail
    ELSE IF s[i] = DQUOTE THEN ParseChars(s, i + 1, <<>>)
    ELSE IF s[i] = "["
         THEN LET j == WsEnd(s, i + 1)
              IN IF j <= Len(s) /\ s[j] = "]"
                 THEN [ok |-> TRUE, v |-> JArr(<<>>), i |-> j + 1]
                 ELSE ParseElements(s, j, <<>>)
    ELSE IF s[i] = "{"
         THEN LET j == WsEnd(s, i + 1)
              IN IF j <= Len(s) /\ s[j] = "}"
                 THEN [ok |-> TRUE, v |-> JObj(<<>>), i |-> j + 1]
                 ELSE ParseItems(s, j, <<>>)
    ELSE IF s[i] \in Digits
         THEN [ok |-> TRUE, v |-> JNum(SubSeq(s, i, IntEnd(s, i) - 1)),
               i |-> IntEnd(s, i)]
    ELSE IF StartsAt(s, i, <<"n", "u", "l", "l">>)
         THEN [ok |-> TRUE, v |-> JNull, i |-> i + 4]
    ELSE IF StartsAt(s, i, <<"t", "r", "u", "e">>)
         THEN [ok |-> TRUE, v |-> JLit(<<"t", "r", "u", "e">>), i |-> i + 4]
    ELSE IF StartsAt(s, i, <<"f", "a", "l", "s", "e">>)
         THEN [ok |-> TRUE, v |-> JLit(<<"f", "a", "l", "s", "e">>), i |-> i + 5]
    ELSE ParseFail

\* the elements of a list from i, acc being those already read
ParseElements(s, i, acc) ==
    LET r == ParseValue(s, i)
        j == WsEnd(s, r.i)
    IN IF ~r.ok \/ j > Len(s) THEN ParseFail
       ELSE IF s[j] = "," THEN ParseElements(s, WsEnd(s, j + 1), Append(acc, r.v))
       ELSE IF s[j] = "]" THEN [ok |-> TRUE, v |-> JArr(Append(acc, r.v)), i |-> j + 1]
       ELSE ParseFail

\* the items of a dict from i, acc being those already read
ParseItems(s, i, acc) ==
    IF ~(i <= Len(s) /\ s[i] = DQUOTE) THEN ParseFail
    ELSE LET key == ParseChars(s, i + 1, <<>>)
             c == WsEnd(s, key.i)
         IN IF ~key.ok \/ c > Len(s) \/ s[c] # ":" THEN ParseFail
            ELSE LET r == ParseValue(s, WsEnd(s, c + 1))
                     j == WsEnd(s, r.i)
                     items == PutItem(acc, key.v.s, r.v)
                 IN IF ~r.ok \/ j > Len(s) THEN ParseFail
                    ELSE IF s[j] = "," THEN ParseItems(s, WsEnd(s, j + 1), items)
                    ELSE IF s[j] = "}" THEN [ok |-> TRUE, v |-> JObj(items), i |-> j + 1]
                    ELSE ParseFail

\* json.loads(s): one value, with nothing but whitespace around it
Loads(s) ==
    LET r == ParseValue(s, WsEnd(s, 1))
    IN IF r.ok /\ WsEnd(s, r.i) = Len(s) + 1
       THEN [ok |-> TRUE, v |-> r.v]
       ELSE [ok |-> FALSE, v |-> JNull]

(***************************************************************************)
(* Generated AI responses: the inputs of create_flashcards / create_quiz.  *)
(* A string body is a sequence of atoms, each the source text of one       *)
(* character of a JSON string and the character it stands for; an element  *)
(* is its compact JSON source with the value json.loads is to give for it. *)
(***************************************************************************)
Atom(src, val) == [src |-> src, val |-> val]

Atoms ==
    { Atom(<<"a">>, "a"),
      Atom(<<BSLASH, BSLASH>>, BSLASH),
      Atom(<<BSLASH, DQUOTE>>, DQUOTE),
      Atom(<<BSLASH, "n">>, NEWLINE),
      Atom(<<BSLASH, "u", "0", "0", "4", "1">>, "A") }

\* the string bodies of at most n atoms
RECURSIVE Bodies(_)
Bodies(n) ==
    IF n = 0 THEN {<<>>}
    ELSE Bodies(n - 1) \cup {Append(b, x) : b \in Bodies(n - 1), x \in Atoms}

RECURSIVE BodySrc(_)
BodySrc(b) == IF b = <<>> THEN <<>> ELSE Head(b).src \o BodySrc(Tail(b))

BodyVal(b) == [n \in 1..Len(b) |-> b[n].val]

Quote(chars) == <<DQUOTE>> \o chars \o <<DQUOTE>>

\* an element: [src, val]
Elem(src, val) == [src |-> src, val |-> val]
StrElem(b) == Elem(Quote(BodySrc(b)), JStr(BodyVal(b)))
IntElem(d) == Elem(<<d>>, JNum(<<d>>))
NullElem == Elem(<<"n", "u", "l", "l">>, JNull)

\* sep.join(parts)
RECURSIVE Join(_, _)
Join(parts, sep) ==
    IF parts = <<>> THEN <<>>
    ELSE IF Len(parts) = 1 THEN parts[1]
    ELSE parts[1] \o sep \o Join(Tail(parts), sep)

\* the compact object of the (key, element) pairs, keys being distinct
ObjElem(pairs) ==
    Elem(<<"{">> \o Join([n \in 1..Len(pairs) |->
                            Quote(pairs[n][1]) \o <<":">> \o pairs[n][2].src], <<",">>)
               \o <<"}">>,
         JObj([n \in 1..Len(pairs) |-> [k |-> pairs[n][1], v |-> pairs[n][2].val]]))

\* the compact array of the elements
ArrElem(elems) ==
    Elem(<<"[">> \o Join([n \in 1..Len(elems) |-> elems[n].src], <<",">>) \o <<"]">>,
         JArr([n \in 1..Len(elems) |-> elems[n].val]))

K_front == <<"f", "r", "o", "n", "t">>
K_back == <<"b", "a", "c", "k">>
K_question_text == <<"q", "u", "e", "s", "t", "i", "o", "n", "_", "t", "e", "x", "t">>
K_option_a == <<"o", "p", "t", "i", "o", "n", "_", "a">>
K_option_b == <<"o", "p", "t", "i", "o", "n", "_", "b">>
K_option_c == <<"o", "p", "t", "i", "o", "n", "_", "c">>
K_option_d == <<"o", "p", "t", "i", "o", "n", "_", "d">>
K_correct_option == <<"c", "o", "r", "r", "e", "c", "t", "_", "o", "p", "t", "i", "o", "n">>
K_explanation == <<"e", "x", "p", "l", "a", "n", "a", "t", "i", "o", "n">>

PlainA == StrElem(<<Atom(<<"a">>, "a")>>)

\* elements a flashcard response can hold: cards whose front is any one-atom
\* string, a card with an escaped back, and malformed ones
CardPool ==
    {ObjElem(<<<<K_front, StrElem(<<x>>)>>, <<K_back, PlainA>>>>) : x \in Atoms}
    \cup { ObjElem(<<<<K_front, PlainA>>,
                     <<K_back, StrElem(<<Atom(<<BSLASH, DQUOTE>>, DQUOTE)>>)>>>>),
           ObjElem(<<<<K_front, PlainA>>>>),
           ObjElem(<<<<K_back, PlainA>>>>),
           PlainA,
           IntElem("1") }

PlainCard == ObjElem(<<<<K_front, PlainA>>, <<K_back, PlainA>>>>)

\* cards that have both keys but not a text under each: an empty or blank
\* string, a number, null
BlankCards ==
    LET blanks == {StrElem(<<>>), StrElem(<<Atom(<<" ">>, " ")>>), IntElem("1"),
                   NullElem}
    IN {ObjElem(<<<<K_front, x>>, <<K_back, PlainA>>>>) : x \in blanks}
       \cup {ObjElem(<<<<K_front, PlainA>>, <<K_back, x>>>>) : x \in blanks}

\* a question with the given correct_option element
Question(co) ==
    ObjElem(<< <<K_question_text, PlainA>>, <<K_option_a, PlainA>>,
               <<K_option_b, PlainA>>, <<K_option_c, PlainA>>,
               <<K_option_d, PlainA>>, <<K_correct_option, co>>,
               <<K_explanation, PlainA>> >>)

Letter(c) == StrElem(<<Atom(<<c>>, c)>>)

\* elements a quiz response can hold
QuizPool ==
    {Question(Letter(c)) : c \in {"A", "B", "C", "D", "E", "a"}}
    \cup { Question(IntElem("1")),
           Question(NullElem),
           Question(StrElem(<<>>)),
           ObjElem(<< <<K_question_text, PlainA>>, <<K_option_a, PlainA>>,
                      <<K_option_b, PlainA>>, <<K_option_c, PlainA>>,
                      <<K_option_d, PlainA>>, <<K_explanation, PlainA>> >>),
           ObjElem(<< <<K_option_a, PlainA>>, <<K_option_b, PlainA>>,
                      <<K_option_c, PlainA>>, <<K_option_d, PlainA>>,
                      <<K_correct_option, Letter("A")>> >>),
           PlainA }

\* the sequences of at most n members of pool
RECURSIVE SeqsUpTo(_, _)
SeqsUpTo(pool, n) ==
    IF n = 0 THEN {<<>>}
    ELSE SeqsUpTo(pool, n - 1)
           \cup {Append(q, x) : q \in SeqsUpTo(pool, n - 1), x \in pool}

\* how a response wraps its JSON: bare, or in a fence with or without the
\* json tag and with or without line breaks inside the fence; "prose" is
\* the JSON between words, with no fence
WrapStyles == {"bare", "fence_json_nl", "fence_nl", "fence_json", "fence"}

Wrap(style, src) ==
    CASE style = "bare" -> src
      [] style = "fence_json_nl" ->
            FENCE \o JSONTAG \o <<NEWLINE>> \o src \o <<NEWLINE>> \o FENCE
      [] style = "fence_nl" -> FENCE \o <<NEWLINE>> \o src \o <<NEWLINE>> \o FENCE
      [] style = "fence_json" -> FENCE \o JSONTAG \o src \o FENCE
      [] style = "fence" -> FENCE \o src \o FENCE
      [] style = "prose" -> <<"x", " ">> \o src \o <<" ", "y">>

\* a generated response: its family, how it is wrapped, the value its JSON
\* stands for, and its text
Gen(fam, wrap, e) ==
    [fam |-> fam, wrap |-> wrap, val |-> e.val, text |-> Wrap(wrap, e.src)]

\* responses that are plain text with backslashes: LaTeX commands such as
\* \c, the escape \u, and runs of backslashes
RawChars == {BSLASH, "c", "u"}

RawTexts == UNION {[1..n -> RawChars] : n \in 1..MaxRaw}

GenResponses ==
    {Gen("json", "bare", StrElem(b)) : b \in Bodies(MaxAtoms)}
    \cup {Gen("json", "bare", ArrElem(<<StrElem(b)>>)) : b \in Bodies(MaxAtoms)}
    \cup {Gen("cards", w, ArrElem(q)) : w \in WrapStyles, q \in SeqsUpTo(CardPool, MaxItems)}
    \cup {Gen("cards", "bare", ArrElem(<<PlainCard, x>>)) : x \in BlankCards}
    \cup {Gen("cards", "prose", ArrElem(q)) : q \in SeqsUpTo({PlainCard}, MaxItems)}
    \cup {Gen("quiz", "prose", ArrElem(<<Question(Letter("A"))>>))}
    \cup {Gen("text", "bare", Elem(t, JNull)) : t \in RawTexts}
    \cup {Gen("quiz", w, ArrElem(q)) :
            w \in {"bare", "fence_json_nl"}, q \in SeqsUpTo(QuizPool, MaxItems)}

(***************************************************************************)
(* The datastore and the requests.                                         *)
(***************************************************************************)
Users == {"u1", "u2"}

\* a row of the notes table
NoteRow(id, user_id, title, content) ==
    [id |-> id, user_id |-> user_id, title |-> title, content |-> content]

\* the notes stored before the request: one of each user
GenNotes ==
    <<NoteRow("n1", "u1", <<"T">>, <<"c">>), NoteRow("n2", "u2", <<"T">>, <<"c">>)>>

\* the select without its owner filter
NotesOf_AnyOwner(rows, note_id, user_id) ==
    SelectSeq(rows, LAMBDA r : r.id = note_id)

\* .eq('id', note_id).eq('user_id', user_id): the matching rows
NotesOf(rows, note_id, user_id) ==
    SelectSeq(rows, LAMBDA r : r.id = note_id /\ r.user_id = user_id)

\* the noteId of a request: a stored note, an unknown one, or none
NoteIds == {"n1", "n2", "n9", ""}

\* title[:50] with "..." after a longer title, behind the prefix
SetTitle(prefix, title) ==
    prefix \o Slice(title, 1, IF Len(title) < 50 THEN Len(title) ELSE 50)
           \o (IF Len(title) > 50 THEN <<".", ".", ".">> ELSE <<>>)

VARIABLES
    GEMINI_API_KEY,   \* whether the key is configured
    aiGen,            \* the response the provider gives to generate_content
    notes,            \* table notes
    flashcard_sets,   \* table flashcard_sets with its individual_flashcards
    quiz_sets,        \* table quiz_sets with its quiz_questions
    request,          \* the request handled: handler, user_id, userId, noteId
    prompt,           \* the prompt handed to generate_content, if any
    json_text,        \* the text handed to json.loads
    parsed,           \* what json.loads gave: [called, ok, v]
    extraction,       \* how parsing and validation ended, and the items kept
    response,         \* the HTTP response of the handler
    pc,               \* "idle" before the request, "done" after it
    errors,           \* upload: the item errors collected
    temp_files,       \* upload: the temporary files that exist
    insert_responses, \* store_results_in_supabase: the rows read back so far
    before,           \* the tables as they were before the request
    db_outcome,       \* delete_note: how each datastore call ended
    provider,         \* the chat provider's answer: status, lines, bytes, position
    buffer,           \* stream_openrouter_response: buffer
    emitted,          \* the events the stream has yielded to the caller
    OPENROUTER_API_KEY, \* whether the chat provider's key is configured
    messages          \* chat: the messages handed to the provider, if any

\* what create_flashcards and create_quiz keep of the AI response
genVars == <<aiGen, prompt, json_text, parsed, extraction>>
\* the tables
tables == <<notes, flashcard_sets, quiz_sets>>
\* what the upload handlers keep
uploadVars == <<errors, temp_files, insert_responses>>
\* the stream relay
\* what the chat handler keeps: the key and the call it makes to the provider
chatVars == <<OPENROUTER_API_KEY, messages>>
streamVars == <<provider, buffer, emitted, chatVars>>

vars ==
    <<GEMINI_API_KEY, request, response, pc, tables, genVars, uploadVars, before,
      db_outcome, streamVars>>

NoResponse == [status |-> 0, success |-> FALSE, detail |-> "", set |-> 0]
NotParsed == [called |-> FALSE, ok |-> FALSE, v |-> JNull]
Parsed(loaded) == [called |-> TRUE, ok |-> loaded.ok, v |-> loaded.v]
\* result: "not_run", "parse_error", "schema_error" or "ok"
Extraction(result, items) == [result |-> result, items |-> items]

\* raise HTTPException(status_code, detail)
HttpError(status, detail) ==
    [status |-> status, success |-> FALSE, detail |-> detail, set |-> 0]

\* return {"success": True, "message": ..., <set>: ...}
Success(message, set) ==
    [status |-> 200, success |-> TRUE, detail |-> message, set |-> set]

\* in a dict
HasKey(d, k) == \E n \in 1..Len(d.m) : d.m[n].k = k
\* d[k]
Get(d, k) == d.m[CHOOSE n \in 1..Len(d.m) : d.m[n].k = k].v

\* "Validate flashcards structure": the condition that lets the list pass
FlashcardsValid(flashcards) ==
    /\ flashcards.t = "list"
    /\ \A n \in 1..Len(flashcards.a) :
          LET fc == flashcards.a[n]
          IN fc.t = "dict" /\ HasKey(fc, K_front) /\ HasKey(fc, K_back)

\* "Create the properly formatted flashcards array"
FormatFlashcards(flashcards) ==
    [n \in 1..Len(flashcards.a) |->
        [front_text |-> Get(flashcards.a[n], K_front),
         back_text |-> Get(flashcards.a[n], K_back)]]

QuizKeys ==
    {K_question_text, K_option_a, K_option_b, K_option_c, K_option_d, K_correct_option}

CorrectOptions == {JStr(<<"A">>), JStr(<<"B">>), JStr(<<"C">>), JStr(<<"D">>)}

\* seeded fault: only the first question is validated
QuizValid_FirstOnly(quiz_questions) ==
    /\ quiz_questions.t = "list"
    /\ \A n \in 1..Len(quiz_questions.a) :
          LET q == quiz_questions.a[n]
          IN n = 1 => /\ q.t = "dict"
                      /\ \A key \in QuizKeys : HasKey(q, key)
                      /\ Get(q, K_correct_option) \in CorrectOptions

\* seeded fault: correct_option is required but its value is not checked
QuizValid_NoEnum(quiz_questions) ==
    /\ quiz_questions.t = "list"
    /\ \A n \in 1..Len(quiz_questions.a) :
          LET q == quiz_questions.a[n]
          IN q.t = "dict" /\ \A key \in QuizKeys : HasKey(q, key)

\* "Validate quiz questions structure": the condition that lets the list pass
QuizValid(quiz_questions) ==
    /\ quiz_questions.t = "list"
    /\ \A n \in 1..Len(quiz_questions.a) :
          LET q == quiz_questions.a[n]
          IN /\ q.t = "dict"
             /\ \A key \in QuizKeys : HasKey(q, key)
             /\ Get(q, K_correct_option) \in CorrectOptions

\* seeded fault: the empty list is not told apart
IsEmptyList_Never(loaded_list) == FALSE

\* "if len(flashcards) == 0" / "if len(quiz_questions) == 0"
IsEmptyList(loaded_list) == Len(loaded_list.a) = 0

\* the id the stored procedure gives the new set
NewId(rows) == Len(rows) + 1

\* the row create_flashcard_set_and_cards / create_quiz_set_and_questions
\* inserts with its children
SetRow(id, user_id, note_id, title, children) ==
    [id |-> id, user_id |-> user_id, note_id |-> note_id, title |-> title,
     children |-> children]

(***************************************************************************)
(* POST /api/flashcards/create and POST /api/quizzes/create, each a whole  *)
(* handler: flashcards.py 184-355, quizzes.py 193-369.                     *)
(***************************************************************************)
\* request.preferences: a key that is not given is NotGiven; "preferences =
\* request.preferences or {}" makes the absent dict the empty one
NotGiven == "<not given>"
Preferences(count, difficulty, focus_topic) ==
    [count |-> count, difficulty |-> difficulty, focus_topic |-> focus_topic]
NoPreferences == Preferences(NotGiven, NotGiven, NotGiven)

\* preferences.get(key, default)
PrefGet(value, default) == IF value = NotGiven THEN default ELSE value

\* str of a text kept as its characters
RECURSIVE Str(_)
Str(chars) == IF chars = <<>> THEN "" ELSE Head(chars) \o Str(Tail(chars))

\* the sentences of the two prompts, as the templates have them
ONLY_JSON ==
    "IMPORTANT: Return ONLY the valid JSON array as plain text without any markdown formatting, code blocks, or annotations. Do not use markdown syntax like "
        \o Str(FENCE) \o "json or " \o Str(FENCE)
        \o ". The response should be parseable directly by JSON.parse()."
CARD_FIELDS ==
    "Each flashcard should be a JSON object with a \"front\" (question, term, or concept) and a \"back\" (answer or definition)."
QUIZ_FIELDS ==
    "- question_text: The question itself - option_a: First option - option_b: Second option - option_c: Third option - option_d: Fourth option - correct_option: One of 'A', 'B', 'C', or 'D' indicating which option is correct - explanation: Brief explanation of why the answer is correct"
USE_LATEX ==
    "1. Mathematical expressions: Use LaTeX notation - Inline math: $E = mc^2$ - Display math: $$K_a = \\frac{[H^+][A^-]}{[HA]}$$"
USE_CE ==
    "2. Chemical equations and formulas: Use \\ce{} notation (will be rendered with mhchem)"

\* the sentence about the focus topic: '... if focus_topic else ""'
FocusSentence(focus_topic) ==
    IF focus_topic = "" THEN ""
    ELSE "Focus on the topic of \"" \o focus_topic \o "\" if present in the content."

\* flashcards.py 214-247: the prompt, sentence by sentence
FlashcardPrompt(preferences, content) ==
    LET card_count == PrefGet(preferences.count, "10")
        difficulty == PrefGet(preferences.difficulty, "medium")
        focus_topic == PrefGet(preferences.focus_topic, "")
    IN << "Based on the following text, generate a list of " \o card_count
             \o " flashcards at " \o difficulty \o " difficulty level.",
          CARD_FIELDS,
          ONLY_JSON,
          FocusSentence(focus_topic),
          "Difficulty guidelines:",
          "Special formatting guidelines:",
          USE_LATEX,
          USE_CE,
          "Text:",
          Str(content),
          "Output format example:",
          "[{\"front\": \"Question 1\", \"back\": \"Answer 1\"}, {\"front\": \"Question 2\", \"back\": \"Answer 2\"}]" >>

\* quizzes.py 223-254: the prompt, sentence by sentence
QuizPrompt(preferences, content) ==
    LET question_count == PrefGet(preferences.count, "5")
        difficulty == PrefGet(preferences.difficulty, "medium")
        focus_topic == PrefGet(preferences.focus_topic, "")
    IN << "Based on the following text, generate a multiple-choice quiz with "
             \o question_count \o " questions at " \o difficulty
             \o " difficulty level. Each question should be a JSON object with the following properties:",
          QUIZ_FIELDS,
          ONLY_JSON,
          FocusSentence(focus_topic),
          "Difficulty guidelines:",
          "Text:",
          Str(content),
          "Output format example:",
          "[{\"question_text\": \"Question 1\", \"option_a\": \"Option A\", \"option_b\": \"Option B\", \"option_c\": \"Option C\", \"option_d\": \"Option D\", \"correct_option\": \"A\", \"explanation\": \"Explanation 1\"}]" >>

\* the handler's outcome: the response, the rows it leaves in its table,
\* and what it normalised, parsed and extracted on the way
Outcome(resp, rows, text, loaded, extracted) ==
    [response |-> resp, rows |-> rows, json_text |-> text, parsed |-> loaded,
     extraction |-> extracted, prompt |-> <<>>]

\* an outcome reached after generate_content was called with the prompt
Prompted(out, sent) == [out EXCEPT !.prompt = sent]

\* an outcome reached before generate_content returned
Early(resp, rows) == Outcome(resp, rows, <<>>, NotParsed, Extraction("not_run", <<>>))

\* everything after json.loads: the outcomes the two datastore calls allow
AfterLoads(kind, rows, user_id, note_id, note_data, normalized, loaded) ==
    LET valid == IF kind = "flashcards" THEN FlashcardsValid(loaded.v)
                 ELSE QuizValid(loaded.v)
        items == IF kind = "flashcards" THEN FormatFlashcards(loaded.v)
                 ELSE loaded.v.a
        prefix == IF kind = "flashcards"
                  THEN <<"F", "l", "a", "s", "h", "c", "a", "r", "d", "s", " ",
                         "f", "o", "r", ":", " ">>
                  ELSE <<"Q", "u", "i", "z", " ", "f", "o", "r", ":", " ">>
        new_id == NewId(rows)
        stored == Append(rows, SetRow(new_id, user_id, note_id,
                                      SetTitle(prefix, note_data.title), items))
        Out(resp, table) ==
            Outcome(resp, table, normalized, Parsed(loaded), Extraction("ok", items))
    IN IF ~loaded.ok
       THEN {Outcome(HttpError(500, "Failed to parse data from AI response"),
                     rows, normalized, Parsed(loaded),
                     Extraction("parse_error", <<>>))}
       ELSE IF ~valid
       THEN {Outcome(HttpError(500, "AI response did not provide valid structure"),
                     rows, normalized, Parsed(loaded),
                     Extraction("schema_error", <<>>))}
       ELSE IF IsEmptyList(loaded.v)
       THEN {Out(Success("No items generated from the content.", 0), rows)}
       ELSE { \* supabase.rpc(...).execute() gave an error, or raised
              Out(HttpError(500, "Failed to store in database"), rows),
              Out(HttpError(500, "Failed to create: rpc raised"), rows),
              \* the set is stored; the read-back raised, gave an error, or gave the set
              Out(HttpError(500, "Failed to create: read-back raised"), stored),
              Out(Success("Created, but failed to fetch complete confirmation data.",
                          new_id), stored),
              Out(Success("Created successfully!", new_id), stored) }

\* a handler without the comparison of the two identities
UserIdMismatch_Unchecked(userId, user_id) == FALSE

\* flashcards.py 190, quizzes.py 199: "if request.userId != user_id"
UserIdMismatch(userId, user_id) == userId # user_id

\* the handler from its first line: the outcomes its calls allow
Create(kind, rows, user_id, userId, note_id, preferences, normalized, loaded) ==
    IF ~GEMINI_API_KEY
    THEN {Early(HttpError(500, "GEMINI_API_KEY is not configured on the server"), rows)}
    ELSE IF UserIdMismatch(userId, user_id)
    THEN {Early(HttpError(403, "User ID mismatch"), rows)}
    ELSE IF note_id = ""
    THEN {Early(HttpError(400, "Missing noteId"), rows)}
    ELSE LET note_rows == NotesOf(notes, note_id, user_id)
             found == note_rows # <<>>
         IN { \* the note fetch raised, or its response carries an error
              Early(HttpError(500, "Failed to create: note fetch raised"), rows),
              Early(HttpError(IF ~found THEN 404 ELSE 500,
                              "Failed to fetch note or note not found"), rows) }
            \cup
            IF ~found
            THEN {Early(HttpError(404, "Failed to fetch note or note not found"), rows)}
            ELSE LET sent == IF kind = "flashcards"
                             THEN FlashcardPrompt(preferences, note_rows[1].content)
                             ELSE QuizPrompt(preferences, note_rows[1].content)
                 IN {Prompted(out, sent) :
                        out \in
                          { \* generate_content raised
                            Early(HttpError(500,
                                      "Failed to create: generate_content raised"),
                                  rows) }
                          \cup AfterLoads(kind, rows, user_id, note_id, note_rows[1],
                                          normalized, loaded)}

\* the effect of the handler on the pending request
Handle(kind) ==
    LET rows == IF kind = "flashcards" THEN flashcard_sets ELSE quiz_sets
        gemini_response_text == aiGen.text
        normalized == NormalizeResponse(gemini_response_text)
        loaded == Loads(normalized)
    IN \E out \in Create(kind, rows, request.user_id, request.userId,
                         request.noteId, request.preferences, normalized, loaded) :
          /\ response' = out.response
          /\ prompt' = out.prompt
          /\ json_text' = out.json_text
          /\ parsed' = out.parsed
          /\ extraction' = out.extraction
          /\ flashcard_sets' = IF kind = "flashcards" THEN out.rows
                               ELSE flashcard_sets
          /\ quiz_sets' = IF kind = "quiz" THEN out.rows ELSE quiz_sets

create_flashcards ==
    /\ pc = "idle"
    /\ request.handler = "flashcards"
    /\ Handle("flashcards")
    /\ pc' = "done"
    /\ UNCHANGED <<GEMINI_API_KEY, aiGen, notes, request, uploadVars, before,
                   db_outcome, streamVars>>

create_quiz ==
    /\ pc = "idle"
    /\ request.handler = "quiz"
    /\ Handle("quiz")
    /\ pc' = "done"
    /\ UNCHANGED <<GEMINI_API_KEY, aiGen, notes, request, uploadVars, before,
                   db_outcome, streamVars>>

\* the variables of the other handlers, while they are not running
NotGenerating ==
    /\ prompt = <<>>
    /\ json_text = <<>>
    /\ parsed = NotParsed
    /\ extraction = Extraction("not_run", <<>>)
NotUploading == errors = <<>> /\ temp_files = {}
                /\ insert_responses = <<>>
NotDeleting ==
    db_outcome = [note_check |-> "", quiz_delete |-> "", flashcard_delete |-> "",
                  note_delete |-> ""]
NotStreaming ==
    /\ provider = [status |-> 0, lines |-> <<>>, done |-> FALSE, bytes |-> <<>>,
                   pos |-> 0]
    /\ buffer = <<>>
    /\ emitted = <<>>
    /\ OPENROUTER_API_KEY = TRUE
    /\ messages = <<>>

Request(handler, user_id, userId, noteId) ==
    [handler |-> handler, user_id |-> user_id, userId |-> userId, noteId |-> noteId,
     preferences |-> NoPreferences]

\* the preferences tried: each of count, difficulty and focus_topic given or
\* left out
PreferenceSets ==
    {Preferences(c, d, f) :
        c \in {NotGiven, "3"}, d \in {NotGiven, "hard"}, f \in {NotGiven, "", "acids"}}

\* every request of the two handlers
AllRequests ==
    {Request(h, u, b, n) :
        h \in {"flashcards", "quiz"}, u \in Users, b \in Users, n \in NoteIds}

\* the responses tried with every request
SampleResponses ==
    { Gen("cards", "bare",
          ArrElem(<<ObjElem(<<<<K_front, PlainA>>, <<K_back, PlainA>>>>)>>)),
      Gen("quiz", "bare", ArrElem(<<Question(Letter("A"))>>)) }

\* the handlers a generated response is given to
HandlersOf(fam) ==
    CASE fam = "cards" -> {"flashcards"}
      [] fam = "quiz" -> {"quiz"}
      [] OTHER -> {"flashcards", "quiz"}

\* the configurations explored: every request on a sample response, and
\* every generated response on the request of u1 for the note u1 owns
GenInputs ==
    {<<k, r, g>> : k \in BOOLEAN, r \in AllRequests, g \in SampleResponses}
    \cup {<<TRUE, [Request(h, "u1", "u1", "n1") EXCEPT !.preferences = p], g>> :
            h \in {"flashcards", "quiz"}, p \in PreferenceSets, g \in SampleResponses}
    \cup {<<TRUE, Request(h, "u1", "u1", "n1"), g>> :
            h \in {"flashcards", "quiz"}, g \in GenResponses}

InitGen ==
    /\ \E x \in {y \in GenInputs : y[2].handler \in HandlersOf(y[3].fam)} :
          /\ GEMINI_API_KEY = x[1]
          /\ request = x[2]
          /\ aiGen = x[3]
    /\ notes = GenNotes
    /\ flashcard_sets = <<>>
    /\ quiz_sets = <<>>
    /\ NotGenerating
    /\ response = NoResponse
    /\ pc = "idle"
    /\ before = [notes |-> notes, flashcard_sets |-> flashcard_sets,
                 quiz_sets |-> quiz_sets]
    /\ NotUploading /\ NotDeleting /\ NotStreaming

NextGen == create_flashcards \/ create_quiz

SpecGen == InitGen /\ [][NextGen]_vars

(***************************************************************************)
(* File upload: upload.py upload_files 236-290 with the functions it       *)
(* calls, and main.py upload 109-354 with process_file and generate_title. *)
(* The request carries, beside its form fields, what its calls will meet:  *)
(* for each file what generate_content does with it, for the title call    *)
(* what it does (title_ai), and which insert fails (db_fail, 0 for none).  *)
(***************************************************************************)
MaxFiles == 3

\* "if len(files) > 5"
MaxUpload == 5

\* generate_content for a file returns markdown, "", whitespace, or raises
AiOutcomes == {"text", "empty", "blank", "raise"}
\* the steps before generate_content that can raise for a file: file.read(),
\* the write into the temporary file of the handler, the copy process_file
\* makes of it (main.py 43-47), and files.upload to the provider
StepFaults == {"read_raise", "write_raise", "copy_raise", "upload_raise"}
\* the faults met inside the handler's own "with NamedTemporaryFile" block
OuterFaults == {"read_raise", "write_raise"}
UploadFile(filename, ai) == [filename |-> filename, ai |-> ai]

\* response.text for the file
Analysis(file) ==
    CASE file.ai = "text" -> <<"#", file.filename>>
      [] file.ai = "empty" -> <<>>
      [] OTHER -> <<" ">>

ERROR_PREFIX == <<"E", "r", "r", "o", "r", ":">>
UNTITLED == <<"U", "n", "t", "i", "t", "l", "e", "d", " ", "N", "o", "t", "e">>

\* main.py process_file 35-93: the text, or "Error: ..." for any exception
process_file(file) ==
    IF file.ai \in {"raise", "copy_raise", "upload_raise"}
    THEN ERROR_PREFIX \o <<" ", "x">>
    ELSE Analysis(file)

\* a temporary file: the upload it holds and the function that made it
Temp(filename, maker) == [of |-> filename, maker |-> maker]

\* main.py: the temporary files made for one file. The handler makes its own
\* before it reads the upload (144, 202, 280); process_file, when it is
\* called, makes the copy with the extension (43)
TempCreated(file) ==
    {Temp(file.filename, "upload")}
    \cup (IF file.ai \in OuterFaults THEN {}
          ELSE {Temp(file.filename, "process_file")})

\* main.py: the temporary files unlinked for one file. An individual item
\* unlinks temp_file_path, set as soon as the file exists (145, 183-185); a
\* group and the whole batch unlink the paths of their list, appended to
\* after the "with" block (208, 286); process_file unlinks in the "finally"
\* of the try it enters after the copy (50, 79-86)
TempUnlinked(file, listed) ==
    (IF listed /\ file.ai \in OuterFaults THEN {}
     ELSE {Temp(file.filename, "upload")})
    \cup (IF file.ai = "copy_raise" THEN {}
          ELSE {Temp(file.filename, "process_file")})

\* main.py: the temporary files still there when the file is done with
TempLeft(file, listed) == TempCreated(file) \ TempUnlinked(file, listed)

\* str.strip(c) for one character c
StripChar(s, c) ==
    LET keep == {i \in 1..Len(s) : s[i] # c}
    IN IF keep = {} THEN <<>>
       ELSE SubSeq(s, CHOOSE i \in keep : \A j \in keep : i <= j,
                      CHOOSE i \in keep : \A j \in keep : i >= j)

\* response.text of the title call: a quoted title between whitespace, or
\* whitespace only
TitleText(content, title_ai) ==
    IF title_ai = "ai" THEN <<" ", DQUOTE, "T">> \o content \o <<DQUOTE, NEWLINE>>
    ELSE <<" ">>

\* main.py generate_title 95-107
generate_title(content, title_ai) ==
    LET title == StripChar(StripChar(Strip(TitleText(content, title_ai)), DQUOTE), "'")
    IN IF title_ai = "raise" \/ title = <<>> THEN UNTITLED ELSE title

\* upload.py generate_topic_with_ai 29-53
generate_topic_with_ai(content, context_hint, title_ai) ==
    LET fallback == IF context_hint # <<>> THEN context_hint ELSE UNTITLED
        stripped == Strip(TitleText(content, title_ai))
        topic == IF /\ stripped # <<>>
                    /\ Head(stripped) = DQUOTE
                    /\ stripped[Len(stripped)] = DQUOTE
                 THEN Slice(stripped, 2, Len(stripped) - 1)
                 ELSE stripped
    IN IF ~GEMINI_API_KEY \/ title_ai = "raise" \/ topic = <<>> THEN fallback
       ELSE topic

\* an item error: the message and the file or item it names
Err(kind, name) == [kind |-> kind, name |-> name]

\* the response: status, success, the notes returned, the errors in the body
UploadResponse(status, success, returned, errs) ==
    [status |-> status, success |-> success, notes |-> returned, errors |-> errs]

NewNoteId(rows) == "n" \o ToString(Len(rows) + 1)

\* upload.py store_results_in_supabase 163-234, from the k-th result on:
\* each result is inserted and read back by (user_id, title), newest first;
\* the rows of one request share their created_at, so the read-back gives any
\* of the request's rows of that title
RECURSIVE StoreResults(_, _, _, _, _)
StoreResults(results, k, table, stored, req) ==
    IF k > Len(results) THEN {[ok |-> TRUE, notes |-> table, stored |-> stored]}
    ELSE IF req.db_fail = k THEN {[ok |-> FALSE, notes |-> table, stored |-> stored]}
    ELSE LET inserted == Append(table, NoteRow(NewNoteId(table), req.user_id,
                                               results[k].title, results[k].analysis))
             newest == {n \in (Len(notes) + 1)..Len(inserted) :
                           /\ inserted[n].user_id = req.user_id
                           /\ inserted[n].title = results[k].title}
         IN UNION {StoreResults(results, k + 1, inserted,
                                Append(stored, inserted[n].id), req) : n \in newest}

\* upload.py upload_files 262-269: processed_results when every file is
\* processed well, one result of the group or one result per file
ProcessedResults(req) ==
    LET files == req.files
        names == [k \in 1..Len(files) |-> <<files[k].filename>>]
    IN IF req.group_files
       THEN <<[analysis |-> Analysis(files[1]),
               title |-> generate_topic_with_ai(Analysis(files[1]),
                             <<"G", "r", "o", "u", "p", ":", " ">>
                                 \o Join(names, <<",", " ">>),
                             req.title_ai)]>>
       ELSE [k \in 1..Len(files) |->
               [analysis |-> Analysis(files[k]),
                title |-> generate_topic_with_ai(Analysis(files[k]), names[k],
                                                 req.title_ai)]]

\* upload.py: the temporary file left of one file. It is made after the read
\* (63, 67; 118, 124) and unlinked in the "finally" when its path was kept,
\* which is after the write (68-69, 125-127)
GeminiTempLeft(file) ==
    IF file.ai = "write_raise" THEN {Temp(file.filename, "upload_files")} ELSE {}

\* upload.py upload_files with process_file_with_gemini 55-107 and
\* process_grouped_files_with_gemini 109-161 (the one call of the group meets
\* what the first file meets): the outcomes the handler can have
UploadFiles(req) ==
    LET files == req.files
        RaiseLeaving(status, kind, name, table, temp) ==
            [response |-> UploadResponse(status, FALSE, <<>>, <<Err(kind, name)>>),
             notes |-> table, errors |-> <<>>, temp |-> temp_files \cup temp]
        Raise(status, kind, name, table) ==
            RaiseLeaving(status, kind, name, table, {})
        failing == {k \in 1..Len(files) :
                       ~GEMINI_API_KEY \/ files[k].ai \in {"raise"} \cup StepFaults}
        \* the files of a group that stop the loop of lines 117-133
        faulted == {k \in 1..Len(files) : files[k].ai \in StepFaults}
        First(ks) == CHOOSE k \in ks : \A j \in ks : k <= j
        Left(ks) == IF GEMINI_API_KEY THEN GeminiTempLeft(files[First(ks)]) ELSE {}
        results == ProcessedResults(req)
    IN IF Len(files) > MaxUpload
       THEN {Raise(413, "You can upload a maximum of 5 files at a time.", "", notes)}
       ELSE IF Len(files) = 0
       THEN {Raise(400, "No files provided", "", notes)}
       ELSE IF req.group_files /\ GEMINI_API_KEY /\ faulted # {}
       THEN {RaiseLeaving(500, "Failed to process grouped files", "", notes,
                          Left(faulted))}
       ELSE IF req.group_files /\ 1 \in failing
       THEN {Raise(500, "Failed to process grouped files", "", notes)}
       ELSE IF ~req.group_files /\ failing # {}
       THEN {RaiseLeaving(500, "Failed to process file",
                          files[First(failing)].filename, notes, Left(failing))}
       ELSE {IF s.ok
             THEN [response |-> UploadResponse(200, TRUE, s.stored, <<>>),
                   notes |-> s.notes, errors |-> <<>>, temp |-> temp_files]
             ELSE Raise(500, "Database error", "", s.notes) :
                s \in StoreResults(results, 1, notes, <<>>, req)}

upload_files ==
    /\ pc = "idle"
    /\ request.handler = "upload_files"
    /\ \E out \in UploadFiles(request) :
          /\ response' = out.response
          /\ notes' = out.notes
          /\ errors' = out.errors
          /\ temp_files' = out.temp
    /\ pc' = "done"
    /\ UNCHANGED <<GEMINI_API_KEY, request, flashcard_sets, quiz_sets, genVars,
                   before, db_outcome, streamVars, insert_responses>>

\* file_map.get(filename): the last uploaded file of that name, or none
Lookup(files, filename) ==
    LET named == {k \in 1..Len(files) : files[k].filename = filename}
    IN IF named = {} THEN UploadFile(filename, "missing")
       ELSE files[CHOOSE k \in named : \A j \in named : k >= j]

\* what the handler has done so far
AddError(acc, kind, name) == [acc EXCEPT !.errors = Append(@, Err(kind, name))]

\* the loop over the files of a group (194-219) or of the whole batch
\* (276-296): the errors and the results it collects
RECURSIVE Collect(_, _, _)
Collect(found, k, acc) ==
    IF k > Len(found) THEN acc
    ELSE LET file == found[k]
             result == process_file(file)
             done == [acc EXCEPT !.temp = @ \cup TempLeft(file, TRUE)]
         IN Collect(found, k + 1,
                IF file.ai = "missing"
                THEN AddError(acc, "File for group not found", file.filename)
                ELSE IF file.ai \in OuterFaults
                THEN AddError(done, "Failed processing file", file.filename)
                ELSE IF result # <<>> /\ StartsAt(result, 1, ERROR_PREFIX)
                THEN AddError(done, "Error processing", file.filename)
                ELSE [done EXCEPT !.results = Append(@, result)])

\* "\n\n".join(filter(None, results))
Combined(results) ==
    Join(SelectSeq(results, LAMBDA r : r # <<>>), <<NEWLINE, NEWLINE>>)

\* seeded fault: the note of an item is never added
Save_NoInsert(acc, content, req, kind, name) ==
    [acc EXCEPT !.attempts = acc.attempts + 1]

\* generate_title, then db.add and db.commit (161-181, 231-250): the note,
\* or the item error when the commit raises
Save(acc, content, req, kind, name) ==
    LET nth == acc.attempts + 1
        row == NoteRow(NewNoteId(acc.notes), req.user_id,
                       generate_title(content, req.title_ai), content)
    IN IF req.db_fail = nth
       THEN [AddError(acc, kind, name) EXCEPT !.attempts = nth]
       ELSE [acc EXCEPT !.attempts = nth, !.notes = Append(@, row),
                        !.created = Append(@, row.id)]

\* one item of the grouping structure (130-258)
StructureItem(acc, item, req) ==
    LET file == Lookup(req.files, item.filenames[1])
        processed_content == process_file(file)
        group == Collect([k \in 1..Len(item.filenames) |->
                             Lookup(req.files, item.filenames[k])],
                         1, [acc EXCEPT !.results = <<>>])
        done == [acc EXCEPT !.temp = @ \cup TempLeft(file, FALSE)]
    IN CASE item.type = "individual" ->
              IF file.ai = "missing"
              THEN AddError(acc, "File mentioned in structure not found in upload",
                            file.filename)
              ELSE IF file.ai \in OuterFaults
              THEN AddError(done, "Failed to process/save individual file",
                            file.filename)
              ELSE IF StartsAt(processed_content, 1, ERROR_PREFIX)
              THEN AddError(done, "Error processing", file.filename)
              ELSE IF Strip(processed_content) = <<>>
              THEN AddError(done, "Empty content after processing", file.filename)
              ELSE Save(done, processed_content, req,
                        "Failed to process/save individual file", file.filename)
         [] item.type = "group" ->
              IF group.results = <<>>
              THEN AddError(group, "Group resulted in no processable content", item.id)
              ELSE IF Strip(Combined(group.results)) = <<>>
              THEN AddError(group, "Empty combined content for group", item.id)
              ELSE Save(group, Combined(group.results), req,
                        "Failed to process/save group", item.id)
         \* an item that is not an object: item.get raises (131) and the
         \* catch-all of line 262 ends the loop
         [] item.type = "malformed" -> [acc EXCEPT !.raised = TRUE]
         [] OTHER -> AddError(acc, "Unknown item type in grouping structure", item.type)

RECURSIVE StructureItems(_, _, _, _)
StructureItems(structure, k, acc, req) ==
    IF k > Len(structure) \/ acc.raised THEN acc
    ELSE StructureItems(structure, k + 1, StructureItem(acc, structure[k], req), req)

\* main.py upload 109-354
Upload(req) ==
    LET start == [notes |-> notes, errors |-> <<>>, created |-> <<>>,
                  attempts |-> 0, results |-> <<>>, raised |-> FALSE,
                  temp |-> temp_files]
        Raise(status, acc) ==
            [response |-> UploadResponse(status, FALSE, <<>>, acc.errors),
             notes |-> acc.notes, errors |-> acc.errors, temp |-> acc.temp]
        \* "Final Response" (341-354)
        Final(acc) ==
            IF acc.created = <<>> /\ acc.errors # <<>> THEN Raise(500, acc)
            ELSE [response |-> UploadResponse(200, TRUE, acc.created, <<>>),
                  notes |-> acc.notes, errors |-> acc.errors, temp |-> acc.temp]
        \* the catch-all of lines 262-268: a 500 that carries its own message
        CatchAll(acc) ==
            [response |-> UploadResponse(500, FALSE, <<>>,
                              <<Err("Error processing grouping structure", "")>>),
             notes |-> acc.notes, errors |-> acc.errors, temp |-> acc.temp]
        batch == Collect(req.files, 1, start)
        items == StructureItems(req.structure.items, 1, start, req)
    IN IF req.files = <<>> THEN Raise(400, start)
       ELSE IF ~req.structure.given
       THEN \* all files, one note: every exception of the block, the 400s of
            \* lines 304 and 310 too, is raised again as the 500 of line 333
            IF \/ batch.results = <<>>
               \/ Strip(Combined(batch.results)) = <<>>
               \/ req.db_fail = 1
            THEN Raise(500, batch)
            ELSE Final(Save(batch, Combined(batch.results), req, "", ""))
       ELSE IF ~req.structure.valid THEN Raise(400, start)
       ELSE IF items.raised THEN CatchAll(items)
       ELSE Final(items)

upload ==
    /\ pc = "idle"
    /\ request.handler = "upload"
    /\ LET out == Upload(request)
       IN /\ response' = out.response
          /\ notes' = out.notes
          /\ errors' = out.errors
          /\ temp_files' = out.temp
    /\ pc' = "done"
    /\ UNCHANGED <<GEMINI_API_KEY, request, flashcard_sets, quiz_sets, genVars,
                   before, db_outcome, streamVars, insert_responses>>

\* the uploads explored: at most MaxFiles files, the second one under its own
\* name or under the name of the first, and one upload of six files
FileName(k) == "f" \o ToString(k) \o ".pdf"

\* uploads in which one file meets a fault at a step before generate_content
\* and the others are processed well
FaultLists ==
    UNION {{[k \in 1..n |->
                UploadFile(FileName(k), IF k = at THEN fault ELSE "text")] :
              at \in 1..n, fault \in StepFaults} : n \in 1..MaxFiles}

FileLists ==
    UNION {{[k \in 1..n |->
                UploadFile(IF dup /\ k = 2 THEN FileName(1) ELSE FileName(k), ai[k])] :
              ai \in [1..n -> AiOutcomes], dup \in BOOLEAN} : n \in 0..MaxFiles}
    \cup {[k \in 1..(MaxUpload + 1) |-> UploadFile(FileName(k), "text")]}
    \cup FaultLists

\* grouping_structure: absent, not JSON, one individual item per file, one
\* group of all files, items of an unknown type and of unknown files before
\* the individual items, or an item that is not an object after them
Structures(files) ==
    LET Item(type, id, filenames) ==
            [type |-> type, id |-> id, filenames |-> filenames]
        Given(items) == [given |-> TRUE, valid |-> TRUE, items |-> items]
        per_file == [k \in 1..Len(files) |->
                        Item("individual", ToString(k), <<files[k].filename>>)]
        odd == <<Item("folder", "x", <<>>), Item("individual", "y", <<"none.pdf">>),
                 Item("group", "z", <<"none.pdf">>)>>
    IN {[given |-> FALSE, valid |-> TRUE, items |-> <<>>],
        [given |-> TRUE, valid |-> FALSE, items |-> <<>>],
        Given(per_file),
        Given(<<Item("group", "g", [k \in 1..Len(files) |-> files[k].filename])>>),
        Given(odd \o per_file),
        Given(per_file \o <<Item("malformed", "", <<>>)>>)}

UploadRequests ==
    {[handler |-> h, user_id |-> "u1", files |-> f, group_files |-> g,
      structure |-> s, title_ai |-> t, db_fail |-> d] :
        h \in {"upload_files"},
        f \in {l \in FileLists : \A k \in 1..Len(l) : l[k].ai # "copy_raise"},
        g \in BOOLEAN,
        s \in {[given |-> FALSE, valid |-> TRUE, items |-> <<>>]},
        t \in {"ai", "empty", "raise"}, d \in 0..MaxFiles}
    \cup UNION {{[handler |-> "upload", user_id |-> "u1", files |-> f,
                  group_files |-> FALSE, structure |-> s, title_ai |-> t,
                  db_fail |-> d] :
                    s \in Structures(f), t \in {"ai", "empty", "raise"},
                    d \in 0..MaxFiles} : f \in FileLists}

InitUpload ==
    /\ request \in UploadRequests
    /\ GEMINI_API_KEY \in {k \in BOOLEAN : k \/ request.handler = "upload_files"}
    /\ notes = <<>>
    /\ flashcard_sets = <<>>
    /\ quiz_sets = <<>>
    /\ before = [notes |-> notes, flashcard_sets |-> flashcard_sets,
                 quiz_sets |-> quiz_sets]
    /\ errors = <<>>
    /\ temp_files = {}
    /\ insert_responses = <<>>
    /\ response = NoResponse
    /\ pc = "idle"
    /\ aiGen = <<>>
    /\ NotGenerating /\ NotDeleting /\ NotStreaming

NextUpload == upload_files \/ upload

SpecUpload == InitUpload /\ [][NextUpload]_vars

(***************************************************************************)
(* DELETE /api/notes/{note_id}: notes.py delete_note 119-193.              *)
(***************************************************************************)
MaxSets == 2

\* how a call of the datastore client ends: a response without an error, a
\* response whose error attribute is set, or an exception out of execute()
CallOutcomes == {"ok", "error", "raise"}

\* the quiz sets or flashcard sets stored before the request: k1 of note n1
\* of user u1, then k2 of note n2 of user u2
StoredSets(prefix, k1, k2) ==
    [i \in 1..(k1 + k2) |->
        SetRow(prefix \o ToString(i), IF i <= k1 THEN "u1" ELSE "u2",
               IF i <= k1 THEN "n1" ELSE "n2", <<"S">>, <<>>)]

\* .eq('note_id', note_id).eq('user_id', user_id): the rows a delete leaves
WithoutSetsOf(rows, note_id, user_id) ==
    SelectSeq(rows, LAMBDA r : ~(r.note_id = note_id /\ r.user_id = user_id))

\* the body of the response: "errors" is present on the partial success only
DeleteResponse(status, success, detail, quizDeleteError, flashcardDeleteError) ==
    [status |-> status, success |-> success, detail |-> detail,
     errors |-> [present |-> quizDeleteError \/ flashcardDeleteError,
                 quizDeleteError |-> IF quizDeleteError THEN "error" ELSE "None",
                 flashcardDeleteError |->
                     IF flashcardDeleteError THEN "error" ELSE "None"]]

\* the calls made, in order, and how each ended ("" for a call not made)
DbOutcome(check, quiz, flashcard, note) ==
    [note_check |-> check, quiz_delete |-> quiz, flashcard_delete |-> flashcard,
     note_delete |-> note]

\* the handler, given how each datastore call it makes ends
DeleteNote(note_id, user_id, check, quiz, flashcard, note) ==
    LET Out(resp, n, q, f, calls) ==
            [response |-> resp, notes |-> n, quiz_sets |-> q,
             flashcard_sets |-> f, db_outcome |-> calls]
        Raised(q, f, calls) ==
            Out(DeleteResponse(500, FALSE,
                               "Failed to delete note and associated items",
                               FALSE, FALSE),
                notes, q, f, calls)
        quiz_left == IF quiz = "ok"
                     THEN WithoutSetsOf(quiz_sets, note_id, user_id)
                     ELSE quiz_sets
        flashcard_left == IF flashcard = "ok"
                          THEN WithoutSetsOf(flashcard_sets, note_id, user_id)
                          ELSE flashcard_sets
        note_left == SelectSeq(notes,
                         LAMBDA r : ~(r.id = note_id /\ r.user_id = user_id))
    IN IF note_id = ""
       THEN Out(DeleteResponse(400, FALSE, "Note ID is required", FALSE, FALSE),
                notes, quiz_sets, flashcard_sets, DbOutcome("", "", "", ""))
       ELSE IF check = "raise"
       THEN Raised(quiz_sets, flashcard_sets, DbOutcome(check, "", "", ""))
       ELSE IF check = "error" \/ NotesOf(notes, note_id, user_id) = <<>>
       THEN Out(DeleteResponse(404, FALSE, "Note not found or access denied",
                               FALSE, FALSE),
                notes, quiz_sets, flashcard_sets, DbOutcome(check, "", "", ""))
       ELSE IF quiz = "raise"
       THEN Raised(quiz_sets, flashcard_sets, DbOutcome(check, quiz, "", ""))
       ELSE IF flashcard = "raise"
       THEN Raised(quiz_left, flashcard_sets, DbOutcome(check, quiz, flashcard, ""))
       ELSE IF note = "raise"
       THEN Raised(quiz_left, flashcard_left,
                   DbOutcome(check, quiz, flashcard, note))
       ELSE IF note = "error"
       THEN Out(DeleteResponse(500, FALSE,
                    "Failed to delete the note after attempting to delete children",
                    FALSE, FALSE),
                notes, quiz_left, flashcard_left,
                DbOutcome(check, quiz, flashcard, note))
       ELSE IF quiz = "error" \/ flashcard = "error"
       THEN Out(DeleteResponse(200, TRUE,
                    "Note deleted, but encountered errors deleting some associated items.",
                    quiz = "error", flashcard = "error"),
                note_left, quiz_left, flashcard_left,
                DbOutcome(check, quiz, flashcard, note))
       ELSE Out(DeleteResponse(200, TRUE,
                    "Note and associated quizzes/flashcards deleted successfully",
                    FALSE, FALSE),
                note_left, quiz_left, flashcard_left,
                DbOutcome(check, quiz, flashcard, note))

delete_note ==
    /\ pc = "idle"
    /\ request.handler = "delete_note"
    /\ \E check, quiz, flashcard, note \in CallOutcomes :
          LET out == DeleteNote(request.note_id, request.user_id,
                                check, quiz, flashcard, note)
          IN /\ response' = out.response
             /\ notes' = out.notes
             /\ quiz_sets' = out.quiz_sets
             /\ flashcard_sets' = out.flashcard_sets
             /\ db_outcome' = out.db_outcome
    /\ pc' = "done"
    /\ UNCHANGED <<GEMINI_API_KEY, request, genVars, uploadVars, before, streamVars>>

InitDelete ==
    /\ GEMINI_API_KEY = TRUE
    /\ \E note_id \in NoteIds, user_id \in Users :
          request = [handler |-> "delete_note", note_id |-> note_id,
                     user_id |-> user_id]
    /\ notes = GenNotes
    /\ \E q1, f1 \in 0..MaxSets, q2, f2 \in 0..1 :
          /\ quiz_sets = StoredSets("q", q1, q2)
          /\ flashcard_sets = StoredSets("f", f1, f2)
    /\ before = [notes |-> notes, flashcard_sets |-> flashcard_sets,
                 quiz_sets |-> quiz_sets]
    /\ response = NoResponse
    /\ pc = "idle"
    /\ aiGen = <<>>
    /\ NotGenerating /\ NotUploading /\ NotDeleting /\ NotStreaming

NextDelete == delete_note

SpecDelete == InitDelete /\ [][NextDelete]_vars

(***************************************************************************)
(* The stream relay: chat.py stream_openrouter_response 184-258.  The      *)
(* provider's answer is a sequence of bytes: an ASCII character is its own *)
(* byte, the one character outside ASCII is the two bytes LEAD CONT.       *)
(***************************************************************************)
MaxLines == 2
MaxChunk == 2

LEAD == "C3"
CONT == "A9"
EACUTE == "U+00E9"

\* chunk.decode('utf-8'): fails on a lead byte without its continuation byte
\* and on a continuation byte without its lead byte
Decode(chunk) ==
    [ok |-> \A i \in 1..Len(chunk) :
               /\ chunk[i] = LEAD => (i < Len(chunk) /\ chunk[i + 1] = CONT)
               /\ chunk[i] = CONT => (i > 1 /\ chunk[i - 1] = LEAD),
     text |-> ReplaceAll(chunk, <<LEAD, CONT>>, <<EACUTE>>)]

K_choices == <<"c", "h", "o", "i", "c", "e", "s">>
K_delta == <<"d", "e", "l", "t", "a">>
K_content == <<"c", "o", "n", "t", "e", "n", "t">>
K_error == <<"e", "r", "r", "o", "r">>
DATA_PREFIX == <<"d", "a", "t", "a", ":", " ">>
DONE_TOKEN == <<"[", "D", "O", "N", "E", "]">>

\* a line of the provider: its kind, the bytes it is sent as, and the content
\* its delta carries
ProviderLine(kind, bytes, content) ==
    [kind |-> kind, bytes |-> bytes, content |-> content]

\* a well-formed delta line carrying the one-character content of the atom
DeltaLine(atom) ==
    LET obj == ObjElem(<< <<K_choices, ArrElem(<<ObjElem(<< <<K_delta,
                   ObjElem(<< <<K_content, StrElem(<<atom>>)>> >>)>> >>)>>)>> >>)
    IN ProviderLine("delta", DATA_PREFIX \o obj.src, JStr(<<atom.val>>))

\* the lines a provider sends before it ends the stream
LinePool ==
    { DeltaLine(Atom(<<"a">>, "a")),
      DeltaLine(Atom(<<"b">>, "b")),
      DeltaLine(Atom(<<LEAD, CONT>>, EACUTE)),
      ProviderLine("bad_json", DATA_PREFIX \o <<"{", "x">>, JNull),
      ProviderLine("no_choices",
                   DATA_PREFIX \o ObjElem(<< <<K_choices, ArrElem(<<>>)>> >>).src,
                   JNull),
      ProviderLine("error_object",
                   DATA_PREFIX \o ObjElem(<< <<K_error, PlainA>> >>).src, JNull),
      ProviderLine("comment", <<":">>, JNull) }

\* the bytes of the lines, each ended by a blank line, and of the
\* termination token when the provider sends it
RECURSIVE StreamBytes(_, _)
StreamBytes(lines, done) ==
    IF lines = <<>>
    THEN IF done THEN DATA_PREFIX \o DONE_TOKEN \o <<NEWLINE, NEWLINE>> ELSE <<>>
    ELSE Head(lines).bytes \o <<NEWLINE, NEWLINE>> \o StreamBytes(Tail(lines), done)

\* the events yielded to the caller
DeltaEvent(content) == [event |-> "delta", content |-> content]
DoneEvent == [event |-> "done", content |-> JNull]
ErrorEvent == [event |-> "error", content |-> JNull]

\* what a line yields and how the loop goes on: with the next line, by
\* returning, or with an exception
LineResult(events, end) == [events |-> events, end |-> end]

\* data_obj["choices"][0]["delta"].get("content", "") and the event yielded
\* (243-258): "except json.JSONDecodeError" catches the failure of json.loads
\* only
HandleData(data_obj) ==
    LET Has(v, k) == v.t = "dict" /\ HasKey(v, k)
        choices == Get(data_obj.v, K_choices)
        delta == Get(choices.a[1], K_delta)
    IN IF ~data_obj.ok THEN LineResult(<<>>, "next")
       ELSE IF /\ Has(data_obj.v, K_choices)
               /\ choices.t = "list" /\ Len(choices.a) > 0
               /\ Has(choices.a[1], K_delta)
               /\ delta.t = "dict"
       THEN LineResult(<<DeltaEvent(IF HasKey(delta, K_content)
                                    THEN Get(delta, K_content)
                                    ELSE JStr(<<>>))>>, "next")
       ELSE LineResult(<<>>, "raise")

\* one line of the buffer (234-258)
HandleLine(raw) ==
    LET line == Strip(raw)
        data == Slice(line, Len(DATA_PREFIX) + 1, Len(line))
    IN IF ~StartsAt(line, 1, DATA_PREFIX) THEN LineResult(<<>>, "next")
       ELSE IF data = DONE_TOKEN THEN LineResult(<<DoneEvent>>, "return")
       ELSE HandleData(Loads(data))

\* the position of the k-th newline of the buffer, 0 for k = 0
Break(buf, k) ==
    LET breaks == {i \in 1..Len(buf) : buf[i] = NEWLINE}
    IN IF k = 0 THEN 0
       ELSE CHOOSE i \in breaks : Cardinality({j \in breaks : j <= i}) = k

\* while '\n' in buffer (233-258), given what each line of the buffer does:
\* the lines are taken one after the other up to the one that returns or
\* raises; what follows the last line taken stays in the buffer
Relay(buf, out, handled) ==
    LET ending == {k \in DOMAIN handled : handled[k].end # "next"}
        last == IF ending = {} THEN Len(handled)
                ELSE CHOOSE k \in ending : \A j \in ending : k <= j
        yielding == SelectSeq([k \in 1..last |-> handled[k].events],
                              LAMBDA events : events # <<>>)
    IN [buffer |-> Slice(buf, Break(buf, last) + 1, Len(buf)),
        emitted |-> out \o [k \in DOMAIN yielding |-> yielding[k][1]],
        end |-> IF ending = {} THEN "next" ELSE handled[last].end]

Drain(buf, out) ==
    Relay(buf, out,
          [k \in 1..Cardinality({i \in 1..Len(buf) : buf[i] = NEWLINE}) |->
              HandleLine(Slice(buf, Break(buf, k - 1) + 1, Break(buf, k) - 1))])

\* the lengths the next chunk can have: short, or all that remains
ChunkLens(remaining) ==
    {n \in 1..MaxChunk : n <= remaining} \cup {n \in {remaining} : n > 0}

\* session.post(...) and the status check (214-227)
stream_openrouter_response ==
    /\ pc = "idle"
    /\ request.handler = "chat"
    /\ IF provider.status # 200
       THEN /\ emitted' = <<ErrorEvent>>
            /\ pc' = "done"
       ELSE /\ emitted' = <<>>
            /\ pc' = "streaming"
    /\ buffer' = <<>>
    /\ UNCHANGED <<GEMINI_API_KEY, request, response, tables, genVars, uploadVars,
                   before, db_outcome, provider, chatVars>>

\* the state after a chunk, given what the loop over its lines did
AfterChunk(r) ==
    /\ buffer' = r.buffer
    /\ emitted' = r.emitted
    /\ pc' = CASE r.end = "return" -> "done"
               [] r.end = "raise" -> "aborted"
               [] OTHER -> "streaming"

\* one chunk of r.iter_content (228-258)
iter_content ==
    /\ pc = "streaming"
    /\ \E n \in ChunkLens(Len(provider.bytes) - provider.pos) :
          LET chunk == Slice(provider.bytes, provider.pos + 1, provider.pos + n)
              text_chunk == Decode(chunk)
          IN /\ provider' = [provider EXCEPT !.pos = @ + n]
             /\ IF ~text_chunk.ok
                THEN /\ pc' = "aborted"
                     /\ UNCHANGED <<buffer, emitted>>
                ELSE AfterChunk(Drain(buffer \o text_chunk.text, emitted))
    /\ UNCHANGED <<GEMINI_API_KEY, request, response, tables, genVars, uploadVars,
                   before, db_outcome, chatVars>>

\* the provider closed the connection: the for loop ends, the generator too
stream_closed ==
    /\ pc = "streaming"
    /\ provider.pos = Len(provider.bytes)
    /\ pc' = "done"
    /\ UNCHANGED <<GEMINI_API_KEY, request, response, tables, genVars, uploadVars,
                   before, db_outcome, streamVars>>

\* the provider's answers: a status, lines of the pool, the token or not
Providers ==
    {[status |-> s, lines |-> l, done |-> d, bytes |-> StreamBytes(l, d), pos |-> 0] :
        s \in {200, 429}, l \in SeqsUpTo(LinePool, MaxLines), d \in BOOLEAN}

InitStream ==
    /\ GEMINI_API_KEY = TRUE
    /\ request = [handler |-> "chat"]
    /\ provider \in Providers
    /\ buffer = <<>>
    /\ emitted = <<>>
    /\ OPENROUTER_API_KEY = TRUE
    /\ messages = <<>>
    /\ notes = GenNotes
    /\ flashcard_sets = <<>>
    /\ quiz_sets = <<>>
    /\ before = [notes |-> notes, flashcard_sets |-> flashcard_sets,
                 quiz_sets |-> quiz_sets]
    /\ response = NoResponse
    /\ pc = "idle"
    /\ aiGen = <<>>
    /\ NotGenerating /\ NotUploading /\ NotDeleting

NextStream == stream_openrouter_response \/ iter_content \/ stream_closed

SpecStream == InitStream /\ [][NextStream]_vars

(***************************************************************************)
(* POST /api/chatbot: chat with fetch_document_content, chat.py 42-149.    *)
(* Texts are sequences of fragments: literals of the f-strings and the     *)
(* characters of the stored values.                                        *)
(***************************************************************************)
MaxChildren == 2

\* ContextDocument.type as the caller may send it
DocTypes == {"note", "quiz", "flashcard_set", "folder"}
\* ContextDocument: id, type (the name is not used by the handler)
ContextDocument(id, type) == [id |-> id, type |-> type]
NoDocument == ContextDocument("", "")

\* the rows of quiz_questions and individual_flashcards under a set
QuestionRow(k, owner) ==
    [question_text |-> <<"q", ToString(k), owner>>, option_a |-> <<"a">>,
     option_b |-> <<"b">>, option_c |-> <<"c">>, option_d |-> <<"d">>,
     correct_option |-> <<"A">>, explanation |-> <<"x">>]
CardRow(k, owner) ==
    [front |-> <<"f", ToString(k), owner>>, back |-> <<"b", ToString(k)>>]

\* the sets stored before a chat request: one of each user, with k child
\* rows each, every title and child marked with its owner
ChatSets(prefix, k) ==
    LET Children(owner) ==
            [i \in 1..k |-> IF prefix = "q" THEN QuestionRow(i, owner)
                            ELSE CardRow(i, owner)]
    IN <<SetRow(prefix \o "1", "u1", "n1", <<"S", "u1">>, Children("u1")),
         SetRow(prefix \o "2", "u2", "n2", <<"S", "u2">>, Children("u2"))>>

\* the f-string literals of fetch_document_content
CHAT_ERROR == "Error: "
NONE_TEXT == "None"
NL == "\n"

\* doc.type.capitalize()
Capitalize(type) ==
    CASE type = "note" -> "Note"
      [] type = "quiz" -> "Quiz"
      [] type = "flashcard_set" -> "Flashcard_set"
      [] OTHER -> type

\* "\n\n".join(parts)
RECURSIVE JoinTexts(_)
JoinTexts(parts) ==
    IF parts = <<>> THEN <<>>
    ELSE IF Len(parts) = 1 THEN parts[1]
    ELSE parts[1] \o <<NL, NL>> \o JoinTexts(Tail(parts))

\* the text of one question (80-86) and of one card (101-102)
QuestionText(q) ==
    <<"Question: ">> \o q.question_text \o <<NL, "Option A: ">> \o q.option_a
        \o <<NL, "Option B: ">> \o q.option_b \o <<NL, "Option C: ">> \o q.option_c
        \o <<NL, "Option D: ">> \o q.option_d
        \o <<NL, "Correct Option: ">> \o q.correct_option
        \o <<NL, "Explanation: ">> \o q.explanation
CardText(card) == <<"Front: ">> \o card.front \o <<NL, "Back: ">> \o card.back

\* the rows .eq('id', doc.id).eq('user_id', user_id) selects in the table of
\* doc.type (45-58)
DocumentRows(user_id, doc) ==
    LET table == CASE doc.type = "note" -> notes
                   [] doc.type = "quiz" -> quiz_sets
                   [] OTHER -> flashcard_sets
    IN SelectSeq(table, LAMBDA r : r.id = doc.id /\ r.user_id = user_id)

\* line 108: the default text; a set row has no content column
DefaultText(doc, document) ==
    <<Capitalize(doc.type), ": ">> \o document.title \o <<NL, NL>>
        \o (IF doc.type = "note" THEN document.content ELSE <<NONE_TEXT>>)

\* fetch_document_content (42-112). main is how the select of the document
\* ends, child how the select of its questions or cards ends: "ok" a
\* response without an error attribute, "error" one that has the
\* attribute, "raise" an exception out of execute()
fetch_document_content(user_id, doc, main, child) ==
    IF doc.type \notin {"note", "quiz", "flashcard_set"}
    THEN <<CHAT_ERROR, "Could not fetch document content: ",
           "Unknown document type: ", doc.type>>
    ELSE IF main = "raise"
    THEN <<CHAT_ERROR, "Could not fetch document content: ", "execute">>
    ELSE IF main = "error"
    THEN <<CHAT_ERROR, "Could not fetch ", doc.type, " with ID ", doc.id>>
    ELSE IF DocumentRows(user_id, doc) = <<>>
    THEN <<CHAT_ERROR, doc.type, " with ID ", doc.id, " not found">>
    ELSE LET document == DocumentRows(user_id, doc)[1]
             rows == document.children
         IN IF doc.type = "note" THEN DefaultText(doc, document)
            ELSE IF child = "raise"
            THEN <<CHAT_ERROR, "Could not fetch document content: ", "execute">>
            ELSE IF child = "ok" /\ rows # <<>>
            THEN IF doc.type = "quiz"
                 THEN <<"Quiz: ">> \o document.title \o <<NL, NL>>
                        \o JoinTexts([i \in 1..Len(rows) |-> QuestionText(rows[i])])
                 ELSE <<"Flashcard Set: ">> \o document.title \o <<NL, NL>>
                        \o JoinTexts([i \in 1..Len(rows) |-> CardText(rows[i])])
            ELSE DefaultText(doc, document)

\* a message of the conversation
Message(role, content) == [role |-> role, content |-> content]

\* line 131: the prompt built around the document text
ContextMessage(context_text, message) ==
    <<"I want you to answer questions about the following document. ",
      "Document Content:", NL>> \o context_text
        \o <<NL, NL, "Now, based on this document, please answer the following question: ">>
        \o message

\* lines 125-134: the messages handed to the provider
ChatMessages(req, context_text) ==
    req.history
        \o <<Message("user", IF req.contextDocument # NoDocument
                             THEN ContextMessage(context_text, req.message)
                             ELSE req.message)>>

\* chat (114-149): the response and the messages the provider is called
\* with; completion is how the call of get_openrouter_response ends
Chat(req, main, child, completion) ==
    IF ~OPENROUTER_API_KEY
    THEN [response |-> HttpError(500, "OPENROUTER_API_KEY is not configured"),
          messages |-> <<>>]
    ELSE LET context_text ==
                 IF req.contextDocument # NoDocument
                 THEN fetch_document_content(req.user_id, req.contextDocument, main, child)
                 ELSE <<>>
             sent == ChatMessages(req, context_text)
         IN IF req.stream
            THEN [response |-> Success("text/event-stream", 0), messages |-> sent]
            ELSE IF completion = "raise"
            THEN [response |-> HttpError(500, "Failed to get AI response: create"),
                  messages |-> sent]
            ELSE [response |-> Success("ChatResponse", 0), messages |-> sent]

chat ==
    /\ pc = "idle"
    /\ request.handler = "chat"
    /\ \E main \in CallOutcomes, child \in CallOutcomes, completion \in {"ok", "raise"} :
          LET r == Chat(request, main, child, completion)
          IN /\ response' = r.response
             /\ messages' = r.messages
             /\ db_outcome' = [db_outcome EXCEPT !.note_check = main,
                                                 !.note_delete = child]
    /\ pc' = "done"
    /\ UNCHANGED <<GEMINI_API_KEY, OPENROUTER_API_KEY, request, tables, genVars,
                   uploadVars, before, provider, buffer, emitted>>

\* the chat requests: with or without a document, streamed or not
ChatRequests ==
    {[handler |-> "chat", user_id |-> u, message |-> <<"m">>, history |-> h,
      stream |-> s, contextDocument |-> d] :
        u \in Users, s \in BOOLEAN,
        h \in {<<>>, <<Message("assistant", <<"h">>)>>},
        d \in {NoDocument}
              \cup {ContextDocument(id, t) :
                      id \in {"n1", "n2", "q1", "q2", "f1", "f2", "x9"}, t \in DocTypes}}

InitChat ==
    /\ GEMINI_API_KEY = TRUE
    /\ OPENROUTER_API_KEY \in BOOLEAN
    /\ request \in ChatRequests
    /\ notes = GenNotes
    /\ \E k \in 0..MaxChildren :
          /\ quiz_sets = ChatSets("q", k)
          /\ flashcard_sets = ChatSets("f", k)
    /\ before = [notes |-> notes, flashcard_sets |-> flashcard_sets,
                 quiz_sets |-> quiz_sets]
    /\ response = NoResponse
    /\ messages = <<>>
    /\ provider = [status |-> 0, lines |-> <<>>, done |-> FALSE, bytes |-> <<>>,
                   pos |-> 0]
    /\ buffer = <<>>
    /\ emitted = <<>>
    /\ pc = "idle"
    /\ aiGen = <<>>
    /\ NotGenerating /\ NotUploading /\ NotDeleting

NextChat == chat

SpecChat == InitChat /\ [][NextChat]_vars

(***************************************************************************)
(* The handlers that read and change the stored rows: notes.py get_notes,  *)
(* get_note, update_note; flashcards.py list_flashcards,                   *)
(* get_flashcard_set; quizzes.py delete_quiz_set; me.py                    *)
(* get_user_documents.                                                     *)
(***************************************************************************)
\* str(e) of an exception out of execute(), and the error of a response
EXC_TEXT == "connection refused"
ERR_TEXT == "response.error"

\* the body and status of a response: message is a sequence of fragments,
\* rows what the body returns of the tables
StoreResponse(status, success, message, rows) ==
    [status |-> status, success |-> success, detail |-> message, set |-> rows]

\* how the datastore calls of the handler ended, in the order it made them
Calls(outcomes) == [calls |-> outcomes]

\* .eq('user_id', user_id).order('created_at', desc=True): the caller's rows,
\* newest first
RowsOfUser(rows, user_id) ==
    LET own == SelectSeq(rows, LAMBDA r : r.user_id = user_id)
    IN [k \in 1..Len(own) |-> own[Len(own) + 1 - k]]

\* the outcome of a handler: its response, the notes and quiz sets it
\* leaves, the calls it made
StoreOutcome(resp, note_rows, quiz_rows, outcomes) ==
    [response |-> resp, notes |-> note_rows, quiz_sets |-> quiz_rows,
     db_outcome |-> Calls(outcomes)]
Unchanged(resp, outcomes) == StoreOutcome(resp, notes, quiz_sets, outcomes)

\* get_notes (notes.py 56-81) and list_flashcards (flashcards.py 56-93):
\* fetch and failed are the messages of the 500 and of the except branch
ListRows(rows, user_id, fetch, failed, call) ==
    CASE call = "error" ->
           Unchanged(StoreResponse(500, FALSE, <<fetch, ERR_TEXT>>, <<>>), <<call>>)
      [] call = "raise" ->
           Unchanged(StoreResponse(200, FALSE, <<failed, EXC_TEXT>>, <<>>), <<call>>)
      [] OTHER ->
           Unchanged(StoreResponse(200, TRUE, <<>>, RowsOfUser(rows, user_id)), <<call>>)

\* get_note (notes.py 84-116) and get_flashcard_set (flashcards.py 96-140)
GetRow(rows, id, user_id, what, call) ==
    IF id = "" THEN Unchanged(StoreResponse(400, FALSE, <<what, " ID is required">>, <<>>),
                              <<>>)
    ELSE CASE call = "error" ->
                Unchanged(StoreResponse(500, FALSE,
                              <<"Failed to fetch ", what, ": ", ERR_TEXT>>, <<>>), <<call>>)
           [] call = "raise" ->
                Unchanged(StoreResponse(200, FALSE,
                              <<"Failed to fetch ", what, ": ", EXC_TEXT>>, <<>>), <<call>>)
           [] NotesOf(rows, id, user_id) = <<>> ->
                Unchanged(StoreResponse(404, FALSE,
                              <<what, " not found or access denied">>, <<>>), <<call>>)
           [] OTHER ->
                Unchanged(StoreResponse(200, TRUE, <<>>, <<NotesOf(rows, id, user_id)[1]>>),
                          <<call>>)

\* get_user_documents (me.py 21-85): the documents of the three tables; a
\* response with an error leaves its table out, an exception ends the handler
DocumentsOf(rows, user_id, type, call) ==
    IF call = "error" THEN <<>>
    ELSE LET own == SelectSeq(rows, LAMBDA r : r.user_id = user_id)
         IN [k \in 1..Len(own) |->
                [id |-> own[k].id, type |-> type, name |-> own[k].title]]

GetUserDocuments(user_id, c1, c2, c3) ==
    LET made == IF c1 = "raise" THEN <<c1>>
                ELSE IF c2 = "raise" THEN <<c1, c2>> ELSE <<c1, c2, c3>>
    IN IF "raise" \in {c1, c2, c3}
       THEN Unchanged(StoreResponse(200, FALSE,
                          <<"Failed to fetch documents: ", EXC_TEXT>>, <<>>), made)
       ELSE Unchanged(StoreResponse(200, TRUE, <<>>,
                          DocumentsOf(notes, user_id, "note", c1)
                              \o DocumentsOf(quiz_sets, user_id, "quiz", c2)
                              \o DocumentsOf(flashcard_sets, user_id, "flashcard_set", c3)),
                      made)

\* the state a handler of this group leaves
Leaves(out) ==
    /\ response' = out.response
    /\ notes' = out.notes
    /\ quiz_sets' = out.quiz_sets
    /\ db_outcome' = out.db_outcome
    /\ pc' = "done"
    /\ UNCHANGED <<GEMINI_API_KEY, request, flashcard_sets, genVars, uploadVars, before,
                   streamVars>>

get_notes ==
    /\ pc = "idle" /\ request.handler = "get_notes"
    /\ \E call \in CallOutcomes :
          Leaves(ListRows(notes, request.user_id, "Failed to fetch notes: ",
                          "Failed to fetch notes: ", call))

get_note ==
    /\ pc = "idle" /\ request.handler = "get_note"
    /\ \E call \in CallOutcomes :
          Leaves(GetRow(notes, request.id, request.user_id, "note", call))

list_flashcards ==
    /\ pc = "idle" /\ request.handler = "list_flashcards"
    /\ \E call \in CallOutcomes :
          Leaves(ListRows(flashcard_sets, request.user_id,
                          "Failed to fetch flashcard sets: ",
                          "Failed to list flashcards: ", call))

get_flashcard_set ==
    /\ pc = "idle" /\ request.handler = "get_flashcard_set"
    /\ \E call \in CallOutcomes :
          Leaves(GetRow(flashcard_sets, request.id, request.user_id, "flashcard set", call))

get_user_documents ==
    /\ pc = "idle" /\ request.handler = "get_user_documents"
    /\ \E c1 \in CallOutcomes, c2 \in CallOutcomes, c3 \in CallOutcomes :
          Leaves(GetUserDocuments(request.user_id, c1, c2, c3))

\* NoteUpdateRequest.title / content: None, or a text
NoText == [given |-> FALSE, v |-> <<>>]
Text(v) == [given |-> TRUE, v |-> v]

\* update_note (notes.py 196-255): the existence check, the update and the
\* read-back of the note, each a call of its own
UpdateNote(note_id, user_id, title, content, check, update, fetch) ==
    LET Failed(text, outcomes) ==
            Unchanged(StoreResponse(500, FALSE, <<"Failed to update note: ", text>>,
                                    <<>>), outcomes)
        updated ==
            [k \in 1..Len(notes) |->
                IF notes[k].id = note_id /\ notes[k].user_id = user_id
                THEN [notes[k] EXCEPT
                        !.title = IF title.given THEN title.v ELSE @,
                        !.content = IF content.given THEN content.v ELSE @]
                ELSE notes[k]]
    IN IF note_id = ""
       THEN Unchanged(StoreResponse(400, FALSE, <<"Note ID is required">>, <<>>), <<>>)
       ELSE IF title.v = <<>> /\ content.v = <<>>
       THEN Unchanged(StoreResponse(400, FALSE,
                          <<"Title or content is required for update">>, <<>>), <<>>)
       ELSE IF check = "raise" THEN Failed(EXC_TEXT, <<check>>)
       ELSE IF check = "error" \/ NotesOf(notes, note_id, user_id) = <<>>
       THEN Unchanged(StoreResponse(404, FALSE, <<"Note not found or access denied">>,
                                    <<>>), <<check>>)
       ELSE IF update = "raise" THEN Failed(EXC_TEXT, <<check, update>>)
       ELSE IF update = "error" THEN Failed(ERR_TEXT, <<check, update>>)
       ELSE IF fetch = "raise"
       THEN StoreOutcome(StoreResponse(500, FALSE,
                             <<"Failed to update note: ", EXC_TEXT>>, <<>>),
                         updated, quiz_sets, <<check, update, fetch>>)
       ELSE StoreOutcome(StoreResponse(200, TRUE, <<"Note updated successfully">>,
                             IF fetch = "error" THEN <<>>
                             ELSE <<NotesOf(updated, note_id, user_id)[1]>>),
                         updated, quiz_sets, <<check, update, fetch>>)

update_note ==
    /\ pc = "idle" /\ request.handler = "update_note"
    /\ \E check \in CallOutcomes, update \in CallOutcomes, fetch \in CallOutcomes :
          Leaves(UpdateNote(request.id, request.user_id, request.title,
                            request.content, check, update, fetch))

\* delete_quiz_set (quizzes.py 152-189): the existence check, then the delete
DeleteQuizSet(quiz_set_id, user_id, check, delete) ==
    LET Failed(text, outcomes) ==
            Unchanged(StoreResponse(500, FALSE, <<"Failed to delete quiz set: ", text>>,
                                    <<>>), outcomes)
    IN IF quiz_set_id = ""
       THEN Unchanged(StoreResponse(400, FALSE, <<"Quiz Set ID is required">>, <<>>), <<>>)
       ELSE IF check = "raise" THEN Failed(EXC_TEXT, <<check>>)
       ELSE IF check = "error" \/ NotesOf(quiz_sets, quiz_set_id, user_id) = <<>>
       THEN Unchanged(StoreResponse(404, FALSE,
                          <<"Quiz set not found or access denied">>, <<>>), <<check>>)
       ELSE IF delete = "raise" THEN Failed(EXC_TEXT, <<check, delete>>)
       ELSE IF delete = "error" THEN Failed(ERR_TEXT, <<check, delete>>)
       ELSE StoreOutcome(StoreResponse(200, TRUE,
                             <<"Quiz set and associated questions deleted successfully">>,
                             <<>>),
                         notes,
                         SelectSeq(quiz_sets, LAMBDA r :
                             ~(r.id = quiz_set_id /\ r.user_id = user_id)),
                         <<check, delete>>)

delete_quiz_set ==
    /\ pc = "idle" /\ request.handler = "delete_quiz_set"
    /\ \E check \in CallOutcomes, delete \in CallOutcomes :
          Leaves(DeleteQuizSet(request.id, request.user_id, check, delete))

\* the notes stored before a request of this group: one of each user, each
\* text marked with its owner
StoreNotes ==
    <<NoteRow("n1", "u1", <<"T", "u1">>, <<"c", "u1">>),
      NoteRow("n2", "u2", <<"T", "u2">>, <<"c", "u2">>)>>

\* a request of this group: the id of the path, the body of an update
StoreRequest(handler, user_id, id, title, content) ==
    [handler |-> handler, user_id |-> user_id, id |-> id, title |-> title,
     content |-> content]

StoreRequests ==
    {StoreRequest(h, u, "", NoText, NoText) :
        h \in {"get_notes", "list_flashcards", "get_user_documents"}, u \in Users}
    \cup {StoreRequest(h, u, id, NoText, NoText) :
            h \in {"get_note", "get_flashcard_set", "delete_quiz_set"}, u \in Users,
            id \in {"n1", "n2", "f1", "f2", "q1", "q2", "x9", ""}}
    \cup UNION {{StoreRequest("update_note", u, id, t, c) :
                    id \in {"n1", "n2", "x9", ""},
                    t \in {NoText, Text(<<>>), Text(<<"N", u>>)},
                    c \in {NoText, Text(<<"k", u>>)}} : u \in Users}
    \cup {[handler |-> "delete_note", note_id |-> id, user_id |-> u] :
            id \in {"n1", "n2", "x9"}, u \in Users}
    \cup {r \in ChatRequests : r.history = <<>> /\ r.contextDocument # NoDocument}

InitStore ==
    /\ GEMINI_API_KEY = TRUE
    /\ request \in StoreRequests
    /\ notes = StoreNotes
    /\ \E k \in 0..MaxChildren :
          /\ quiz_sets = ChatSets("q", k)
          /\ flashcard_sets = ChatSets("f", k)
    /\ before = [notes |-> notes, flashcard_sets |-> flashcard_sets,
                 quiz_sets |-> quiz_sets]
    /\ response = NoResponse
    /\ pc = "idle"
    /\ aiGen = <<>>
    /\ NotGenerating /\ NotUploading /\ NotDeleting /\ NotStreaming

NextStore ==
    \/ get_notes \/ get_note \/ list_flashcards \/ get_flashcard_set
    \/ get_user_documents \/ update_note \/ delete_quiz_set \/ delete_note \/ chat

SpecStore == InitStore /\ [][NextStore]_vars

(***************************************************************************)
(* upload_files step by step. store_results_in_supabase (upload.py         *)
(* 163-234) sends one datastore request per insert and one per read-back;  *)
(* between two of them the datastore serves the requests of other callers. *)
(***************************************************************************)
\* the most notes other requests insert while this one runs
MaxRivals == 1

\* a row of notes with the created_at its request gave it
StampedRow(id, user_id, title, content, created_at) ==
    [id |-> id, user_id |-> user_id, title |-> title, content |-> content,
     created_at |-> created_at]

\* current_time of this request (166): one value for all its rows; a
\* concurrent request carries its own, earlier, equal or later
CURRENT_TIME == 1
RivalTimes == {0, 1, 2}

\* the content of a note another request stores
RIVAL_CONTENT == <<"r">>

\* upload_files 246-269 passes: the size checks, and every file processed
Processed(req) ==
    /\ GEMINI_API_KEY
    /\ Len(req.files) \in 1..MaxUpload
    /\ \A k \in 1..Len(req.files) : req.files[k].ai \notin {"raise"} \cup StepFaults

\* the result store_results_in_supabase is at
CurrentResult == ProcessedResults(request)[Len(insert_responses) + 1]

\* upload_files up to the call of store_results_in_supabase (246-272)
process_files ==
    /\ pc = "idle"
    /\ request.handler = "upload_files"
    /\ Processed(request)
    /\ pc' = "insert"
    /\ UNCHANGED <<GEMINI_API_KEY, request, response, tables, genVars, uploadVars,
                   before, db_outcome, streamVars>>

\* the insert of one result (171-182, 200-213); an error of the datastore
\* ends the request with a 500
store_insert ==
    /\ pc = "insert"
    /\ IF request.db_fail = Len(insert_responses) + 1
       THEN /\ response' = UploadResponse(500, FALSE, <<>>, <<Err("Database error", "")>>)
            /\ pc' = "done"
            /\ UNCHANGED notes
       ELSE /\ notes' = Append(notes,
                            StampedRow(NewNoteId(notes), request.user_id,
                                       CurrentResult.title, CurrentResult.analysis,
                                       CURRENT_TIME))
            /\ pc' = "fetch"
            /\ UNCHANGED response
    /\ UNCHANGED <<GEMINI_API_KEY, request, flashcard_sets, quiz_sets, genVars,
                   uploadVars, before, db_outcome, streamVars>>

\* .eq('user_id', user_id).eq('title', title).order('created_at', desc=True)
\* .limit(1): the rows that can come first, rows of equal created_at in any
\* order
NewestOf(rows, user_id, title) ==
    LET match == {n \in 1..Len(rows) :
                     rows[n].user_id = user_id /\ rows[n].title = title}
    IN {n \in match : \A m \in match : rows[m].created_at <= rows[n].created_at}

\* the read-back of the inserted result (185-193, 216-227), and after the
\* last one the response of upload_files (274-278)
store_fetch ==
    /\ pc = "fetch"
    /\ \E n \in NewestOf(notes, request.user_id, CurrentResult.title) :
          LET read == Append(insert_responses, notes[n].id)
              last == Len(read) = Len(ProcessedResults(request))
          IN /\ insert_responses' = read
             /\ pc' = IF last THEN "done" ELSE "insert"
             /\ response' = IF last THEN UploadResponse(200, TRUE, read, <<>>)
                            ELSE response
    /\ UNCHANGED <<GEMINI_API_KEY, request, tables, genVars, errors, temp_files,
                   before, db_outcome, streamVars>>

\* another request of the same user stores a note of the same title, served
\* between two datastore requests of this one
rival_insert ==
    /\ pc \in {"insert", "fetch"}
    /\ Cardinality({n \in 1..Len(notes) : notes[n].content = RIVAL_CONTENT})
          < MaxRivals
    /\ \E k \in 1..Len(ProcessedResults(request)), t \in RivalTimes :
          notes' = Append(notes,
                          StampedRow(NewNoteId(notes), request.user_id,
                                     ProcessedResults(request)[k].title,
                                     RIVAL_CONTENT, t))
    /\ UNCHANGED <<GEMINI_API_KEY, request, response, pc, flashcard_sets, quiz_sets,
                   genVars, uploadVars, before, db_outcome, streamVars>>

\* the uploads explored: files that are processed well, of different names
\* or of one name
InitReadBack ==
    /\ request \in {r \in UploadRequests :
                      /\ r.handler = "upload_files"
                      /\ Len(r.files) \in 1..MaxFiles
                      /\ \A k \in 1..Len(r.files) : r.files[k].ai = "text"}
    /\ GEMINI_API_KEY = TRUE
    /\ notes = <<>>
    /\ flashcard_sets = <<>>
    /\ quiz_sets = <<>>
    /\ before = [notes |-> notes, flashcard_sets |-> flashcard_sets,
                 quiz_sets |-> quiz_sets]
    /\ response = NoResponse
    /\ pc = "idle"
    /\ aiGen = <<>>
    /\ NotGenerating /\ NotUploading /\ NotDeleting /\ NotStreaming

NextReadBack == process_files \/ store_insert \/ store_fetch \/ rival_insert

SpecReadBack == InitReadBack /\ [][NextReadBack]_vars

(***************************************************************************)
(* Claims about normalisation and extraction (SpecGen).                    *)
(***************************************************************************)
\* the handler got as far as json.loads
Extracted == pc = "done" /\ parsed.called

\* C1: normalisation preserves the value of valid JSON: when the response is
\* already valid JSON, the text handed to json.loads parses, and to the same
\* value as the response itself.
C1_NormalizePreservesValue ==
    (Extracted /\ aiGen.wrap = "bare" /\ Loads(aiGen.text).ok)
        => (parsed.ok /\ parsed.v = Loads(aiGen.text).v)

\* a list of {front, back} objects whose fronts and backs are strings that
\* are not empty after trimming
IsFlashcardList(v) ==
    /\ v.t = "list"
    /\ \A n \in 1..Len(v.a) :
          /\ v.a[n].t = "dict"
          /\ HasKey(v.a[n], K_front) /\ HasKey(v.a[n], K_back)
          /\ \A k \in {K_front, K_back} :
                Get(v.a[n], k).t = "str" /\ Strip(Get(v.a[n], k).s) # <<>>

\* the cards of a flashcard list, in order
CardsOf(v) ==
    [n \in 1..Len(v.a) |->
        [front_text |-> Get(v.a[n], K_front), back_text |-> Get(v.a[n], K_back)]]

\* C2: round trip: a valid flashcard list serialised as a compact JSON array,
\* bare or in a fence (with or without the json tag, with or without a newline
\* after the opening fence), is extracted as exactly that list, in order.
C2_RoundTrip ==
    (Extracted /\ request.handler = "flashcards" /\ aiGen.fam = "cards"
       /\ IsFlashcardList(aiGen.val))
        => (extraction.result = "ok" /\ extraction.items = CardsOf(aiGen.val))

\* the fields an element of the handler's array must have
RequiredKeys(handler) ==
    IF handler = "flashcards" THEN {K_front, K_back}
    ELSE {K_question_text, K_option_a, K_option_b, K_option_c, K_option_d,
          K_correct_option}

\* an element that is not an object or lacks a required field
Malformed(handler, e) ==
    e.t # "dict" \/ \E k \in RequiredKeys(handler) : ~HasKey(e, k)

\* C3: extraction is all-or-nothing: when an element of the parsed array is
\* not an object or lacks a required field, the extraction ends with the
\* schema error, the response is the 500, no item is kept and no set is stored.
C3_AllOrNothing ==
    (Extracted /\ parsed.ok /\ parsed.v.t = "list"
       /\ \E n \in 1..Len(parsed.v.a) : Malformed(request.handler, parsed.v.a[n]))
        => /\ extraction = Extraction("schema_error", <<>>)
           /\ response.status = 500 /\ ~response.success
           /\ flashcard_sets = <<>> /\ quiz_sets = <<>>

\* the case of C3: a well-formed element before or after a malformed one
C3_Witness ==
    /\ Extracted /\ parsed.ok /\ parsed.v.t = "list"
    /\ \E n, k \in 1..Len(parsed.v.a) :
          /\ Malformed(request.handler, parsed.v.a[n])
          /\ ~Malformed(request.handler, parsed.v.a[k])
    /\ extraction.result = "schema_error"

\* the four values of correct_option
ABCD == {JStr(<<"A">>), JStr(<<"B">>), JStr(<<"C">>), JStr(<<"D">>)}

\* C4: a quiz array whose elements all have the required fields is accepted
\* exactly when every correct_option is one of "A", "B", "C", "D"; every
\* question kept for the stored procedure, and every question stored, has
\* such a correct_option.
C4_CorrectOptionEnum ==
    /\ (Extracted /\ request.handler = "quiz" /\ parsed.ok /\ parsed.v.t = "list"
          /\ \A n \in 1..Len(parsed.v.a) : ~Malformed("quiz", parsed.v.a[n]))
         => (extraction.result = "ok"
               <=> \A n \in 1..Len(parsed.v.a) :
                      Get(parsed.v.a[n], K_correct_option) \in ABCD)
    /\ request.handler = "quiz"
         => \A n \in 1..Len(extraction.items) :
               Get(extraction.items[n], K_correct_option) \in ABCD
    /\ \A r \in 1..Len(quiz_sets) : \A n \in 1..Len(quiz_sets[r].children) :
          Get(quiz_sets[r].children[n], K_correct_option) \in ABCD

\* the case of C4: a question with every field and a correct_option outside
\* the four values is rejected
C4_Witness ==
    /\ Extracted /\ request.handler = "quiz" /\ parsed.ok /\ parsed.v.t = "list"
    /\ \A n \in 1..Len(parsed.v.a) : ~Malformed("quiz", parsed.v.a[n])
    /\ \E n \in 1..Len(parsed.v.a) :
          Get(parsed.v.a[n], K_correct_option) = JStr(<<"E">>)
    /\ \E n \in 1..Len(parsed.v.a) :
          Get(parsed.v.a[n], K_correct_option) = JStr(<<"A">>)
    /\ extraction.result = "schema_error"

\* C5: a response that normalises to the empty array is a success with no
\* items: success is true, the status is 200, no set is named or stored, and
\* neither the parse error nor the schema error is raised.
C5_EmptyArraySuccess ==
    (Extracted /\ json_text = <<"[", "]">>)
        => /\ response.status = 200 /\ response.success /\ response.set = 0
           /\ extraction = Extraction("ok", <<>>)
           /\ flashcard_sets = <<>> /\ quiz_sets = <<>>

\* the case of C5: a fenced empty array, normalised and answered
C5_Witness ==
    /\ Extracted /\ json_text = <<"[", "]">>
    /\ aiGen.wrap = "fence_json_nl"
    /\ response.success

(***************************************************************************)
(* Claims about the upload (SpecUpload).                                   *)
(***************************************************************************)
\* the files are processed one by one: upload_files without group_files, or
\* upload with one individual item per file, in upload order
PerFile ==
    \/ request.handler = "upload_files" /\ ~request.group_files
    \/ /\ request.handler = "upload"
       /\ request.structure.given /\ request.structure.valid
       /\ Len(request.structure.items) = Len(request.files)
       /\ \A k \in 1..Len(request.files) :
             /\ request.structure.items[k].type = "individual"
             /\ request.structure.items[k].filenames = <<request.files[k].filename>>

\* the AI call fails for file k alone, and nothing else of the request fails
OnlyFails(k) ==
    /\ GEMINI_API_KEY /\ request.db_fail = 0
    /\ \A i, j \in 1..Len(request.files) :
          i # j => request.files[i].filename # request.files[j].filename
    /\ \A j \in 1..Len(request.files) :
          request.files[j].ai = (IF j = k THEN "raise" ELSE "text")

\* C6: sibling independence of a per-file upload: when the AI call of one file
\* fails, each other file has exactly one note stored, there is one error and
\* it names the failed file, and the response is a success.
C6_SiblingIndependence ==
    \A k \in 1..Len(request.files) :
        (pc = "done" /\ PerFile /\ Len(request.files) >= 2 /\ OnlyFails(k))
            => /\ response.status = 200 /\ response.success
               /\ Len(notes) = Len(request.files) - 1
               /\ \A j \in 1..Len(request.files) :
                     j # k => Cardinality({n \in 1..Len(notes) :
                                 notes[n].content = Analysis(request.files[j])}) = 1
               /\ Len(errors \o response.errors) = 1
               /\ (errors \o response.errors)[1].name = request.files[k].filename

(***************************************************************************)
(* Claims about delete_note (SpecDelete).                                  *)
(***************************************************************************)
\* the sub-step was made and did not succeed
StepFailed(outcome) == outcome \in {"error", "raise"}

\* the rows of the table that belong to the note of the request
OfNote(rows) == SelectSeq(rows, LAMBDA r : r.note_id = request.note_id)

\* C7: cascading delete of an owned note: when the deletion of the quiz sets
\* fails and no other sub-step does, the flashcard sets and the note are
\* deleted, the response is a success and its errors.quizDeleteError is not
\* null; when no sub-step fails, the note and all its sets are gone.
C7_CascadingDelete ==
    (pc = "done" /\ request.handler = "delete_note"
       /\ NotesOf(before.notes, request.note_id, request.user_id) # <<>>
       /\ db_outcome.note_check = "ok")
        => /\ (/\ StepFailed(db_outcome.quiz_delete)
               /\ ~StepFailed(db_outcome.flashcard_delete)
               /\ ~StepFailed(db_outcome.note_delete))
                 => /\ OfNote(flashcard_sets) = <<>>
                    /\ NotesOf(notes, request.note_id, request.user_id) = <<>>
                    /\ response.status = 200 /\ response.success
                    /\ response.errors.present
                    /\ response.errors.quizDeleteError # "None"
           /\ (/\ db_outcome.quiz_delete = "ok"
               /\ db_outcome.flashcard_delete = "ok"
               /\ db_outcome.note_delete = "ok")
                 => /\ OfNote(quiz_sets) = <<>>
                    /\ OfNote(flashcard_sets) = <<>>
                    /\ NotesOf(notes, request.note_id, request.user_id) = <<>>

(***************************************************************************)
(* Claims about the stream relay (SpecStream).                             *)
(***************************************************************************)
\* the generator has ended, by returning or with an exception
StreamEnded == request.handler = "chat" /\ pc \in {"done", "aborted"}

\* the delta events of the well-formed delta lines, in order
DeltasOf(lines) ==
    LET deltas == SelectSeq(lines, LAMBDA l : l.kind = "delta")
    IN [k \in 1..Len(deltas) |-> DeltaEvent(deltas[k].content)]

\* C8: the stream keeps content and order: when the provider sends n
\* well-formed delta lines and then the termination token, however its bytes
\* are cut into chunks, the caller gets the n contents in order and then the
\* end marker, and nothing else.
C8_StreamPreserved ==
    (StreamEnded /\ provider.status = 200 /\ provider.done
       /\ \A k \in 1..Len(provider.lines) : provider.lines[k].kind = "delta")
        => emitted = DeltasOf(provider.lines) \o <<DoneEvent>>

\* C9: every stream that finishes ends with the end marker, given once: also
\* when the provider closes without its termination token or answers with a
\* status other than 200.
C9_EndMarker ==
    (request.handler = "chat" /\ pc = "done")
        => /\ emitted # <<>>
           /\ emitted[Len(emitted)] = DoneEvent
           /\ Cardinality({k \in 1..Len(emitted) : emitted[k] = DoneEvent}) = 1

\* C10: a malformed data line is skipped: when the provider's lines, some of
\* them not JSON or JSON without choices[0].delta, are followed by the
\* termination token, the caller gets the content of every well-formed delta
\* line, in order, and the end marker.
C10_MalformedSkipped ==
    (StreamEnded /\ provider.status = 200 /\ provider.done
       /\ \A k \in 1..Len(provider.bytes) : provider.bytes[k] # LEAD)
        => emitted = DeltasOf(provider.lines) \o <<DoneEvent>>

(***************************************************************************)
(* Claims about the chat context (SpecChat).                               *)
(***************************************************************************)
\* the request names a document of a known type that is not stored under
\* that id for the caller
DocumentMissing ==
    /\ request.contextDocument # NoDocument
    /\ request.contextDocument.type \in {"note", "quiz", "flashcard_set"}
    /\ DocumentRows(request.user_id, request.contextDocument) = <<>>

\* C11: when the referenced document does not exist or is not owned by the
\* caller, the chat request is rejected with not found, no provider call is
\* made, and no error text is put into the prompt as document content.
C11_ContextNotFound ==
    (pc = "done" /\ request.handler = "chat" /\ OPENROUTER_API_KEY /\ DocumentMissing)
        => /\ response.status = 404
           /\ messages = <<>>
           /\ \A k \in 1..Len(messages) :
                 \A j \in 1..Len(messages[k].content) :
                    messages[k].content[j] # CHAT_ERROR

(***************************************************************************)
(* Claims about the outcome of an upload (SpecUpload).                     *)
(***************************************************************************)
\* the request has ended in one of the two upload handlers
Uploaded == pc = "done" /\ request.handler \in {"upload_files", "upload"}

\* C12: the batch size is validated first: an upload of no file or of more
\* than 5 files ends in a 4xx response with no note persisted and no item
\* processed; an upload of 1 to 5 files is not refused for its size.
C12_BatchSizeFirst ==
    Uploaded =>
        /\ (Len(request.files) = 0 \/ Len(request.files) > MaxUpload)
              => /\ response.status \in 400..499
                 /\ notes = before.notes
                 /\ errors = <<>>
        /\ (Len(request.files) \in 1..MaxUpload)
              => /\ response.status # 413
                 /\ (request.structure.given => request.structure.valid)
                       => response.status # 400

\* the request got as far as processing a file or a group
Attempted ==
    \/ request.handler = "upload_files" /\ Len(request.files) \in 1..MaxUpload
    \/ /\ request.handler = "upload" /\ request.files # <<>>
       /\ \/ ~request.structure.given
          \/ /\ request.structure.valid
             /\ \E k \in 1..Len(request.structure.items) :
                   request.structure.items[k].type \in {"individual", "group"}

\* C13: total failure is a server error carrying the item errors: when an
\* upload attempted a file or a group and persisted no note, the response is
\* a 5xx whose body holds every collected item error.
C13_TotalFailure ==
    (Uploaded /\ Attempted /\ notes = before.notes)
        => /\ response.status \in 500..599
           /\ \A k \in 1..Len(errors) :
                 \E j \in 1..Len(response.errors) : response.errors[j] = errors[k]

\* C14: partial success reports its errors: when an upload persists a note
\* while an item failed, the response is a success that holds the collected
\* item errors beside the created notes.
C14_PartialSuccessReportsErrors ==
    (Uploaded /\ Len(notes) > Len(before.notes) /\ errors # <<>>
       /\ response.status = 200)
        => /\ response.notes # <<>>
           /\ \A k \in 1..Len(errors) :
                 \E j \in 1..Len(response.errors) : response.errors[j] = errors[k]

\* C15: a hard failure means nothing was created: when the response of an
\* upload is an error status, no note of the request is persisted.
C15_HardFailureCreatesNothing ==
    (Uploaded /\ response.status >= 400) => notes = before.notes

\* every file of the request has its content generated, and every datastore
\* call succeeds
ContentGenerated ==
    /\ GEMINI_API_KEY /\ request.db_fail = 0
    /\ Len(request.files) \in 1..MaxUpload
    /\ \A k \in 1..Len(request.files) : request.files[k].ai = "text"
    /\ request.structure.given =>
          /\ request.structure.valid
          /\ \A k \in 1..Len(request.structure.items) :
                request.structure.items[k].type \in {"individual", "group"}

\* C16: a failure of the title call is never fatal and falls back to the
\* literal title: when the title call raises or returns empty text for
\* generated content, the notes are persisted all the same and the title of
\* each is exactly "Untitled Note".
C16_TitleFallback ==
    (Uploaded /\ ContentGenerated /\ request.title_ai \in {"raise", "empty"})
        => /\ response.status = 200
           /\ Len(notes) > Len(before.notes)
           /\ \A n \in (Len(before.notes) + 1)..Len(notes) : notes[n].title = UNTITLED

(***************************************************************************)
(* Claims about the handlers of the stored rows (SpecStore).               *)
(***************************************************************************)
\* the handlers whose calls are recorded one by one
StoreHandlers ==
    {"get_notes", "get_note", "list_flashcards", "get_flashcard_set",
     "get_user_documents", "update_note", "delete_quiz_set"}

\* a datastore call of the finished request raised an exception
CallRaised ==
    /\ pc = "done" /\ request.handler \in StoreHandlers
    /\ \E k \in 1..Len(db_outcome.calls) : db_outcome.calls[k] = "raise"

\* C17: an unexpected exception inside a route handler reaches the caller as
\* a 500, never as a 2xx, and the body does not hold the exception's text.
C17_ExceptionIsGeneric500 ==
    CallRaised
        => /\ response.status = 500
           /\ \A k \in 1..Len(response.detail) : response.detail[k] # EXC_TEXT

\* the rows of a table that the caller of the request does not own
OthersOf(rows) == SelectSeq(rows, LAMBDA r : r.user_id # request.user_id)

\* the text holds the owner mark of a user other than the caller
MentionsOther(text) ==
    \E j \in 1..Len(text) : text[j] \in Users \ {request.user_id}

\* what the response hands to the caller is taken from the caller's rows
ReturnedOwn ==
    /\ request.handler \in StoreHandlers =>
          \A k \in 1..Len(response.set) :
             IF "name" \in DOMAIN response.set[k]
             THEN ~MentionsOther(response.set[k].name)
             ELSE /\ response.set[k].user_id = request.user_id
                  /\ ~MentionsOther(response.set[k].title)
    /\ request.handler = "chat" =>
          \A k \in 1..Len(messages) : ~MentionsOther(messages[k].content)

\* C18: owner isolation: whatever a caller requests of the note, quiz-set,
\* flashcard-set and chat-context handlers, no row of another owner is
\* returned, updated or deleted: the rows of the others stay as they were.
C18_OwnerIsolation ==
    pc = "done"
        => /\ OthersOf(notes) = OthersOf(before.notes)
           /\ OthersOf(quiz_sets) = OthersOf(before.quiz_sets)
           /\ OthersOf(flashcard_sets) = OthersOf(before.flashcard_sets)
           /\ ReturnedOwn

\* a caller asked to update the note of another owner, every call succeeding
C18_Witness ==
    /\ pc = "done" /\ request.handler = "update_note"
    /\ request.user_id = "u1" /\ request.id = "n2" /\ request.title.v # <<>>
    /\ db_outcome.calls = <<"ok">>
    /\ response.status = 404

(***************************************************************************)
(* Claims about the extracted cards and the payload (SpecGen).             *)
(***************************************************************************)
\* a JSON value that is a string with something in it besides whitespace
IsText(v) == v.t = "str" /\ Strip(v.s) # <<>>

\* C19: every flashcard accepted by extraction and handed to persistence has
\* a front and a back that are strings, non-empty after trimming; a response
\* with a card whose front or back is empty, blank or not a string is
\* rejected.
C19_CardsAreTexts ==
    (Extracted /\ request.handler = "flashcards" /\ extraction.result = "ok")
        => \A n \in 1..Len(extraction.items) :
              /\ IsText(extraction.items[n].front_text)
              /\ IsText(extraction.items[n].back_text)

\* the payload by the three-way precedence: the content of the fenced block,
\* else the bracketed array found in the text, else the text as it is
PayloadOf(text) ==
    LET fenced == FenceSearch(text)
        array == ArraySearch(text)
    IN IF fenced.found THEN Strip(fenced.g1)
       ELSE IF array.found THEN array.g0
       ELSE text

\* C20: the payload handed on to parsing is the fenced content when the
\* response has a fenced block, otherwise the bracketed array [ { ... } ]
\* when one can be found in the response (an array between words, with no
\* fence), and the response unchanged only when neither is found.
C20_PayloadPrecedence ==
    Extracted => json_text = RepairBackslashes(PayloadOf(aiGen.text))

(***************************************************************************)
(* Claims about the escape repair (SpecGen).                               *)
(***************************************************************************)
\* the characters that make a single backslash a valid JSON escape
JsonEscapes == {DQUOTE, BSLASH, "/", "b", "f", "n", "r", "t", "u"}

\* the first backslash of s at or after from, 0 when there is none
NextBackslash(s, from) ==
    LET at == {i \in from..Len(s) : s[i] = BSLASH}
    IN IF at = {} THEN 0 ELSE CHOOSE i \in at : \A j \in at : i <= j

\* the exact repair, read left to right: a double backslash and a backslash
\* with a valid escape character after it are kept, any other backslash is
\* doubled
RECURSIVE ExactRepairFrom(_, _)
ExactRepairFrom(s, from) ==
    LET i == NextBackslash(s, from)
    IN IF i = 0 THEN Slice(s, from, Len(s))
       ELSE IF i < Len(s) /\ s[i + 1] \in JsonEscapes
       THEN Slice(s, from, i + 1) \o ExactRepairFrom(s, i + 2)
       ELSE Slice(s, from, i) \o <<BSLASH>> \o ExactRepairFrom(s, i + 1)

ExactRepair(s) == ExactRepairFrom(s, 1)

\* C21: the escape repair is exact: in the text handed to json.loads every
\* double backslash of the payload is still a double backslash, every single
\* backslash before one of " \ / b f n r t u is unchanged, and every other
\* single backslash is doubled, wherever it stands in the text.
C21_EscapeRepairExact ==
    Extracted => json_text = ExactRepair(StripFences(aiGen.text))

(***************************************************************************)
(* Claims about the temporary files of an upload (SpecUpload).             *)
(***************************************************************************)
\* C22: temporary files are always released: when an upload request has
\* finished, whatever its outcome and whichever step failed for whichever
\* file, no temporary file made for a file of the request still exists.
C22_TempFilesReleased ==
    Uploaded => temp_files = {}

(***************************************************************************)
(* Claims about files of the same name (SpecUpload).                       *)
(***************************************************************************)
\* two files of the upload have the same filename
SameNames(files) ==
    \E j, k \in 1..Len(files) : j < k /\ files[j].filename = files[k].filename

\* the files that are the first of their name, in upload order
FirstOfName(files) ==
    SelectSeq(files, LAMBDA f :
        \A k \in 1..Len(files) :
            files[k].filename = f.filename
                => files[CHOOSE j \in 1..Len(files) :
                             /\ files[j].filename = f.filename
                             /\ \A i \in 1..Len(files) :
                                   files[i].filename = f.filename => j <= i] = f)

\* C23: when two files of a batch have the same filename, an entry of the
\* grouping structure that names it resolves to the first such file in upload
\* order: the notes are those of the upload without the later files of that
\* name; and the ambiguity is flagged: an error is recorded beside those the
\* upload of the first files alone records.
C23_FirstMatchFlagged ==
    [][(/\ pc = "idle" /\ request.handler = "upload"
        /\ request.structure.given /\ request.structure.valid
        /\ SameNames(request.files))
          => LET first == Upload([request EXCEPT !.files = FirstOfName(@)])
             IN /\ notes' = first.notes
                /\ Len(errors') > Len(first.errors)]_vars

(***************************************************************************)
(* Claims about the generation prompts (SpecGen).                          *)
(***************************************************************************)
\* generate_content was called
ProviderCalled == prompt # <<>>

\* the prompt has the sentence
Instructs(sentence) == \E i \in 1..Len(prompt) : prompt[i] = sentence

\* C24: each generation prompt, for every combination of preferences, tells
\* the model to return only the raw JSON array without prose or fences, names
\* the fields of the schema, and asks for LaTeX for math and \ce{} for
\* chemistry.
C24_PromptInstructions ==
    (pc = "done" /\ ProviderCalled)
        => /\ Instructs(ONLY_JSON)
           /\ Instructs(IF request.handler = "flashcards" THEN CARD_FIELDS
                        ELSE QUIZ_FIELDS)
           /\ Instructs(USE_LATEX)
           /\ Instructs(USE_CE)

(***************************************************************************)
(* Claims about the notes an upload persists (SpecUpload).                 *)
(***************************************************************************)
\* the notes the request added to the table
NewNotes == {n \in 1..Len(notes) : n > Len(before.notes)}

\* generate_content gave no text for the file: empty text or whitespace
GaveNoText(file) == file.ai \in {"empty", "blank"}

\* C25: no note with empty or whitespace-only content is persisted by an
\* upload; in a per-file upload each file whose AI call gave empty text or
\* whitespace has an item error naming it.
C25_NoEmptyNote ==
    Uploaded
        => /\ \A n \in NewNotes : Strip(notes[n].content) # <<>>
           /\ (/\ PerFile /\ GEMINI_API_KEY /\ Len(request.files) \in 1..MaxUpload
               /\ ~SameNames(request.files))
                 => \A k \in 1..Len(request.files) :
                       GaveNoText(request.files[k])
                           => \E e \in 1..Len(errors) :
                                 errors[e].name = request.files[k].filename

(***************************************************************************)
(* Claims about the context of a quiz (SpecChat).                          *)
(***************************************************************************)
\* the chat request names a quiz set of the caller, and both selects succeed
OwnQuizRead ==
    /\ pc = "done" /\ request.handler = "chat" /\ OPENROUTER_API_KEY
    /\ request.contextDocument # NoDocument
    /\ request.contextDocument.type = "quiz"
    /\ DocumentRows(request.user_id, request.contextDocument) # <<>>
    /\ db_outcome.note_check = "ok" /\ db_outcome.note_delete = "ok"

\* the context text in the message handed to the provider
ContextOf(sent) == sent[Len(sent)].content

\* C26: for a quiz of the caller the context is the quiz title followed by
\* the flattening of all its questions in stored order; with no question it
\* is the title alone, with no question text and no placeholder.
C26_QuizContext ==
    OwnQuizRead
        => LET quiz == DocumentRows(request.user_id, request.contextDocument)[1]
               questions == quiz.children
               flat == JoinTexts([i \in 1..Len(questions) |->
                                     QuestionText(questions[i])])
               title == <<"Quiz: ">> \o quiz.title
           IN /\ questions # <<>>
                    => ContextOf(messages)
                         = ContextMessage(title \o <<NL, NL>> \o flat, request.message)
              /\ questions = <<>>
                    => /\ \E tail \in {<<>>, <<NL>>, <<NL, NL>>} :
                             ContextOf(messages)
                               = ContextMessage(title \o tail, request.message)
                       /\ \A j \in 1..Len(ContextOf(messages)) :
                             ContextOf(messages)[j] # NONE_TEXT

(***************************************************************************)
(* Claims about the number of notes of an upload (SpecUpload).             *)
(***************************************************************************)
\* every item of the request succeeds: the key is set, each file gets text
\* from the AI call, no insert fails, and the structure, when given, has only
\* individual and group items that name uploaded files
AllSucceed ==
    /\ GEMINI_API_KEY /\ request.db_fail = 0
    /\ Len(request.files) \in 1..MaxUpload
    /\ \A k \in 1..Len(request.files) : request.files[k].ai = "text"
    /\ request.structure.valid
    /\ \A k \in 1..Len(request.structure.items) :
          /\ request.structure.items[k].type \in {"individual", "group"}
          /\ \A j \in 1..Len(request.structure.items[k].filenames) :
                \E f \in 1..Len(request.files) :
                   request.files[f].filename = request.structure.items[k].filenames[j]

\* the processing units the grouping decision selects
Units ==
    IF request.handler = "upload_files"
    THEN IF request.group_files THEN 1 ELSE Len(request.files)
    ELSE IF request.structure.given THEN Len(request.structure.items) ELSE 1

\* C27: on an upload where every item succeeds, the number of notes persisted
\* is the number of processing units: one note per file when the files are
\* processed one by one, one note per group whatever the size of the group.
C27_OneNotePerUnit ==
    (Uploaded /\ AllSucceed) => Cardinality(NewNotes) = Units

\* an upload of several files in one group has succeeded
C27_Witness ==
    /\ Uploaded /\ AllSucceed /\ response.status = 200
    /\ Len(request.files) > 1
    /\ \/ request.handler = "upload_files" /\ request.group_files
       \/ /\ request.handler = "upload" /\ request.structure.given
          /\ Len(request.structure.items) = 1
          /\ request.structure.items[1].type = "group"
    /\ Cardinality(NewNotes) = 1

(***************************************************************************)
(* Claims about the rows upload_files returns (SpecReadBack).              *)
(***************************************************************************)
\* the ids of the rows this request inserted, in the order of its inserts
InsertedIds ==
    LET own == SelectSeq(notes, LAMBDA r : r.content # RIVAL_CONTENT)
    IN [k \in 1..Len(own) |-> own[k].id]

\* C28: the notes upload_files returns are exactly the rows this request
\* inserted, one distinct row per processed file in file order, also when
\* two files get the same title and when another request of the same user
\* stores a note of that title between an insert and its read-back.
C28_ReturnsInsertedRows ==
    (pc = "done" /\ request.handler = "upload_files" /\ response.status = 200)
        => response.notes = InsertedIds

(***************************************************************************)
(* Claims about the identity check of the two generation handlers          *)
(* (SpecGen).                                                              *)
(***************************************************************************)
\* a request whose body names another user than its header
MismatchAnswered ==
    /\ pc = "done"
    /\ request.handler \in {"flashcards", "quiz"}
    /\ GEMINI_API_KEY
    /\ request.userId # request.user_id

C30_ErrorLeavesSets ==
    (pc = "done" /\ request.handler = "delete_note" /\ response.status >= 400)
        => /\ OfNote(quiz_sets) = OfNote(before.quiz_sets)
           /\ OfNote(flashcard_sets) = OfNote(before.flashcard_sets)

====
